---- MODULE Spec2Model ----
(***************************************************************************)
(* Kelly Criterion Monte Carlo simulator (kelly_mc): data model            *)
(* constructors, simulation engine and Kelly solver.                       *)
(*                                                                         *)
(* Numbers.  The program computes on floats; the model computes on exact   *)
(* fixed-point integers:                                                   *)
(*   - probabilities and uniform draws in units of 1/One  (One = 1.0),     *)
(*   - scenario returns in units of 1/RScale,                              *)
(*   - Kelly fractions in units of 1/KScale,                               *)
(*   - a growth factor 1 + f*r as a numerator over GScale = KScale*RScale, *)
(*   - portfolio_values[i][t] as a numerator over GScale^t.                *)
(* Optional values (kelly_fraction, seed) are <<>> for None and <<x>> for  *)
(* a value.  Strings are sequences of characters.                          *)
(***************************************************************************)
EXTENDS Integers, Sequences, FiniteSets, TLC

VARIABLES
    \* ---- constructor calls (models.py) ----
    ctor_call,          \* the last constructor call: [fn, args]
    ctor_exc,           \* the exception that call raised, or NoExc
    ctor_obj,           \* the object that call returned: None or <<object>>
    \* ---- run_simulation (engine.py) ----
    config,             \* the SimulationConfig the engine is called on
    pc,                 \* position inside run_simulation
    rng,                \* the Generator of the current call: uniforms consumed so far
    seed_stream,        \* output of the bit generator seeded with config.seed, as far as observed
    kelly_fractions,    \* lookup table built at engine.py:28-34
    setup_indices,
    scenario_indices,
    period_returns,
    setup_idx,          \* loop variable of engine.py:43
    result,             \* the SimulationResult of the current call: None or <<result>>
    first_result,       \* the SimulationResult of the previous call on the same config
    \* ---- compute_kelly_fraction (kelly.py) ----
    kelly_arg,          \* the Setup passed: None or <<setup>>
    kelly_exc,          \* the exception the call raised, or NoExc
    kelly_ret,          \* the KellyInfo returned: None or <<info>>
    \* ---- expected_log_growth_at (kelly.py) ----
    growth_arg,         \* None or <<[setup, fraction]>>
    growth_exc,
    growth_ret,         \* the float returned: None or <<value>>
    \* ---- compute_blended_kelly (kelly.py) ----
    blend_arg,          \* the tuple of setups passed: None or <<setups>>
    blend_exc,
    blend_ret,          \* the float returned: None or <<weighted_sum>>
    \* ---- compute_analytics (analytics.py) ----
    report,             \* the AnalyticsReport returned: None or <<report>>
    report_exc,         \* the exception the call raised, or NoExc
    run_arg,            \* the matrix passed to _max_consecutive_true: None or <<arr>>
    run_ret,            \* the array it returned: None or <<result>>
    \* ---- validate_scenario, validate_setup, validate_config (validators.py) ----
    val_call,           \* [fn, arg]: the validator called and the object passed
    val_exc,            \* the exception the call raised, or NoExc
    val_ret,            \* the list of errors returned: None or <<errors>>
    \* ---- the Streamlit pages (app/) ----
    session_state,      \* st.session_state of one browser session: key -> value
    page_out            \* how the last script run of a page ended

ctor_vars == <<ctor_call, ctor_exc, ctor_obj>>
engine_vars == <<config, pc, rng, seed_stream, kelly_fractions, setup_indices,
                 scenario_indices, period_returns, setup_idx, result, first_result>>
solver_vars == <<kelly_arg, kelly_exc, kelly_ret>>
growth_vars == <<growth_arg, growth_exc, growth_ret>>
blend_vars == <<blend_arg, blend_exc, blend_ret>>
kelly_vars == <<solver_vars, growth_vars, blend_vars>>
report_vars == <<report, report_exc>>
longest_run_vars == <<run_arg, run_ret>>
analytics_vars == <<report_vars, longest_run_vars>>
validator_vars == <<val_call, val_exc, val_ret>>
app_vars == <<session_state, page_out>>
vars == <<ctor_vars, engine_vars, kelly_vars, analytics_vars, validator_vars, app_vars>>

(***************************************************************************)
(* Units and helpers                                                       *)
(***************************************************************************)
None == <<>>
Some(x) == <<x>>

\* 1/atol of np.isclose(total, 1.0, atol=1e-6)
AtolInv == 1000000
\* 1/rtol of np.isclose: rtol is left at numpy's default 1e-5
RtolInv == 100000

One == 10 * AtolInv          \* probability 1.0, in units of 1e-7
Half == One \div 2
RScale == 10 ^ 1             \* returns in tenths: -RScale is -100%
KScale == 2 ^ 1              \* Kelly fractions in halves
GScale == KScale * RScale    \* growth factor 1.0

Abs(x) == IF x < 0 THEN -x ELSE x

RECURSIVE SumSeq(_)
SumSeq(s) == IF s = <<>> THEN 0 ELSE s[1] + SumSeq(Tail(s))

\* np.isclose(a, b, atol=1e-6): |a - b| <= atol + rtol * |b|, on integers in
\* units of 1/One (the floor is exact because |a - b| is an integer).
IsClose(a, b) == Abs(a - b) <= (One \div AtolInv) + (Abs(b) \div RtolInv)

\* str.strip(): drop leading and trailing whitespace.
IsSpace(ch) == ch = " "
RECURSIVE LStrip(_)
LStrip(s) == IF s # <<>> /\ IsSpace(s[1]) THEN LStrip(Tail(s)) ELSE s
RECURSIVE RStrip(_)
RStrip(s) ==
    IF s # <<>> /\ IsSpace(s[Len(s)]) THEN RStrip(SubSeq(s, 1, Len(s) - 1)) ELSE s
Strip(s) == RStrip(LStrip(s))

(***************************************************************************)
(* models.py: validating constructors                                      *)
(***************************************************************************)
NoExc == [type |-> "none", msg |-> ""]
ValueError(msg) == [type |-> "ValueError", msg |-> msg]

\* Scenario.__post_init__: the exception it raises, or NoExc.
BadScenarioPostInit(self) ==
    IF ~(0 <= self.probability /\ self.probability <= One)
    THEN ValueError("Probability must be in [0, 1]")
    ELSE IF self.return_pct < -RScale
    THEN ValueError("Return must be > -100%")
    ELSE IF Strip(self.name) = <<>>
    THEN ValueError("Scenario name cannot be empty")
    ELSE NoExc
ScenarioPostInit(self) ==
    IF ~(0 <= self.probability /\ self.probability <= One)
    THEN ValueError("Probability must be in [0, 1]")
    ELSE IF self.return_pct <= -RScale
    THEN ValueError("Return must be > -100%")
    ELSE IF Strip(self.name) = <<>>
    THEN ValueError("Scenario name cannot be empty")
    ELSE NoExc

\* Setup.__post_init__
SetupPostInit(self) ==
    IF Strip(self.name) = <<>>
    THEN ValueError("Setup name cannot be empty")
    ELSE IF ~(0 < self.probability /\ self.probability <= One)
    THEN ValueError("Setup probability must be in (0, 1]")
    ELSE IF Len(self.scenarios) < 2
    THEN ValueError("Setup must have at least 2 scenarios")
    ELSE IF ~IsClose(SumSeq([i \in 1..Len(self.scenarios) |->
                              self.scenarios[i].probability]), One)
    THEN ValueError("Scenario probabilities must sum to 1.0")
    ELSE IF self.kelly_fraction # None /\ self.kelly_fraction[1] <= 0
    THEN ValueError("Per-setup kelly_fraction must be positive")
    ELSE NoExc

\* SimulationConfig.__post_init__
SimulationConfigPostInit(self) ==
    IF Len(self.setups) = 0
    THEN ValueError("At least one setup is required")
    ELSE IF ~IsClose(SumSeq([i \in 1..Len(self.setups) |->
                              self.setups[i].probability]), One)
    THEN ValueError("Setup probabilities must sum to 1.0")
    ELSE IF self.num_simulations < 1
    THEN ValueError("Number of simulations must be >= 1")
    ELSE IF self.num_periods < 1
    THEN ValueError("Number of periods must be >= 1")
    ELSE IF self.initial_capital <= 0
    THEN ValueError("Initial capital must be positive")
    ELSE IF self.default_kelly_fraction <= 0
    THEN ValueError("default_kelly_fraction must be positive")
    ELSE NoExc

\* A dataclass constructor: the object exists only if __post_init__ returns.
Construct(self, exc) == [exc |-> exc, obj |-> IF exc = NoExc THEN Some(self) ELSE None]

Scenario(name, probability, return_pct) ==
    LET self == [name |-> name, probability |-> probability, return_pct |-> return_pct]
    IN Construct(self, ScenarioPostInit(self))

Setup(name, probability, scenarios, kelly_fraction) ==
    LET self == [name |-> name, probability |-> probability,
                 scenarios |-> scenarios, kelly_fraction |-> kelly_fraction]
    IN Construct(self, SetupPostInit(self))

SimulationConfig(setups, num_simulations, num_periods, initial_capital, default_kelly_fraction, seed) ==
    LET self == [setups |-> setups, num_simulations |-> num_simulations,
                 num_periods |-> num_periods, initial_capital |-> initial_capital,
                 default_kelly_fraction |-> default_kelly_fraction, seed |-> seed]
    IN Construct(self, SimulationConfigPostInit(self))

\* SimulationConfig.get_effective_kelly
BadGetEffectiveKelly(self, setup) == self.default_kelly_fraction
GetEffectiveKelly(self, setup) ==
    IF setup.kelly_fraction # None
    THEN setup.kelly_fraction[1]
    ELSE self.default_kelly_fraction

(***************************************************************************)
(* Constructor calls: arguments drawn from small sets that contain every   *)
(* kind of defect.  Nested objects are objects a constructor returned.     *)
(***************************************************************************)
MaxScenarios == 3     \* longest scenarios tuple passed to Setup
MaxSetups == 2        \* longest setups tuple passed to SimulationConfig

TupleSet(S, lo, hi) == UNION {[1..n -> S] : n \in lo..hi}

NameArgs == {<<>>, <<" ", " ">>, <<" ", "W", " ">>}
ProbArgs == {-1, 0, Half, One, One + 1}
ReturnArgs == {-RScale - 5, -RScale, -9, 0, 5}
KellyArgs == {None, Some(-1), Some(0), Some(1)}
SeedArgs == {None, Some(42)}

\* Scenario probabilities whose sums hit, straddle and miss the tolerance.
SumProbArgs == {0, Half, Half + 10, Half + 60, Half + 120, One}

\* The Scenario objects handed to Setup: those the constructor returned.
ScenarioObjects ==
    {Scenario(<<"W">>, p, 5).obj[1] :
        p \in {q \in SumProbArgs : Scenario(<<"W">>, q, 5).exc = NoExc}}

\* The Setup objects handed to SimulationConfig.
SetupObjects ==
    LET sc(p) == Scenario(<<"W">>, p, 5).obj[1]
        args == {Half - 60, Half, Half + 10, Half + 120, One} \X {None, Some(1)}
    IN {Setup(<<"S">>, a[1], <<sc(Half), sc(Half)>>, a[2]).obj[1] :
            a \in {b \in args : Setup(<<"S">>, b[1], <<sc(Half), sc(Half)>>, b[2]).exc = NoExc}}

\* One constructor call per behaviour: the caller passes args, gets r back.
CanCall == ctor_call.fn = "none"
Returned(fn, args, r) ==
    /\ ctor_call' = [fn |-> fn, args |-> args]
    /\ ctor_exc' = r.exc
    /\ ctor_obj' = r.obj
    /\ UNCHANGED <<engine_vars, kelly_vars, analytics_vars, validator_vars, app_vars>>

NewScenario ==
    /\ CanCall
    /\ \E name \in NameArgs, probability \in ProbArgs \cup SumProbArgs, return_pct \in ReturnArgs :
        Returned("Scenario",
                 [name |-> name, probability |-> probability, return_pct |-> return_pct],
                 Scenario(name, probability, return_pct))

NewSetup ==
    /\ CanCall
    /\ \E name \in NameArgs, probability \in ProbArgs,
       scenarios \in TupleSet(ScenarioObjects, 0, MaxScenarios), kelly_fraction \in KellyArgs :
        Returned("Setup",
                 [name |-> name, probability |-> probability,
                  scenarios |-> scenarios, kelly_fraction |-> kelly_fraction],
                 Setup(name, probability, scenarios, kelly_fraction))

NewSimulationConfig ==
    /\ CanCall
    /\ \E setups \in TupleSet(SetupObjects, 0, MaxSetups),
       num_simulations \in {0, 1, 2}, num_periods \in {0, 1},
       initial_capital \in {0, 100}, default_kelly_fraction \in {-1, 0, 1},
       seed \in SeedArgs :
        Returned("SimulationConfig",
                 [setups |-> setups, num_simulations |-> num_simulations,
                  num_periods |-> num_periods, initial_capital |-> initial_capital,
                  default_kelly_fraction |-> default_kelly_fraction, seed |-> seed],
                 SimulationConfig(setups, num_simulations, num_periods, initial_capital,
                                  default_kelly_fraction, seed))

EngineIdle ==
    /\ config = None
    /\ pc = "idle"
    /\ rng = 0
    /\ seed_stream = <<>>
    /\ kelly_fractions = <<>>
    /\ setup_indices = <<>>
    /\ scenario_indices = <<>>
    /\ period_returns = <<>>
    /\ setup_idx = 0
    /\ result = None
    /\ first_result = None

CtorIdle ==
    /\ ctor_call = [fn |-> "none", args |-> <<>>]
    /\ ctor_exc = NoExc
    /\ ctor_obj = None

KellyIdle ==
    /\ kelly_arg = None
    /\ kelly_exc = NoExc
    /\ kelly_ret = None
    /\ growth_arg = None
    /\ growth_exc = NoExc
    /\ growth_ret = None
    /\ blend_arg = None
    /\ blend_exc = NoExc
    /\ blend_ret = None

AnalyticsIdle ==
    /\ report = None
    /\ report_exc = NoExc
    /\ run_arg = None
    /\ run_ret = None

ValidatorIdle ==
    /\ val_call = [fn |-> "none", arg |-> <<>>]
    /\ val_exc = NoExc
    /\ val_ret = None

\* No page has run yet: the session holds no key.
AppIdle ==
    /\ session_state = <<>>
    /\ page_out = "none"

InitModels == CtorIdle /\ EngineIdle /\ KellyIdle /\ AnalyticsIdle /\ ValidatorIdle /\ AppIdle
NextModels == NewScenario \/ NewSetup \/ NewSimulationConfig
SpecModels == InitModels /\ [][NextModels]_vars

(***************************************************************************)
(* engine.py: run_simulation                                               *)
(***************************************************************************)
MaxCells == 2         \* largest num_simulations * num_periods of a run

\* Uniform draws in [0, 1): the lowest, a cumulative boundary, the highest.
UValues == {0, Half, One - 1}

\* An np.empty cell that was never assigned.
Empty == <<>>
\* What such a cell can hold when it is read.
GarbageReturns == {-3 * RScale, 0, 7}

N == config.num_simulations
T == config.num_periods
S == Len(config.setups)

\* Row-major position of cell (i, t), 1-based, in a matrix of T columns.
Flat(i, t) == (i - 1) * T + t
Matrix(f) == [i \in 1..N |-> [t \in 1..T |-> f[i, t]]]

\* np.random.default_rng(config.seed): with an integer seed the generator's
\* output is a function of the seed; with None it is fresh entropy.
BadSeededGenerator(cfg) == FALSE
SeededGenerator(cfg) == cfg.seed # None

\* rng.random(size) for n = prod(size) values: the pairs <<u, stream>> of the
\* values returned and the seeded stream as observed afterwards.
BadRandom(n) ==
    LET have == Len(seed_stream)
        need == IF n > have THEN n - have ELSE 0
    IN {<<SubSeq(seed_stream \o ext, 1, n), seed_stream \o ext>> : ext \in [1..need -> UValues]}
Random(n) ==
    IF SeededGenerator(config)
    THEN LET have == Len(seed_stream)
             need == IF rng + n > have THEN rng + n - have ELSE 0
         IN {<<SubSeq(seed_stream \o ext, rng + 1, rng + n), seed_stream \o ext>> :
                ext \in [1..need -> UValues]}
    ELSE {<<u, seed_stream>> : u \in [1..n -> UValues]}

\* np.cumsum
CumSum(probs) == [i \in 1..Len(probs) |-> SumSeq(SubSeq(probs, 1, i))]

\* np.searchsorted(a, v) (side='left'): binary search for the first index
\* (0-based) whose entry is not below v.
RECURSIVE BinSearch(_, _, _, _)
BinSearch(a, v, lo, hi) ==
    IF lo >= hi THEN lo
    ELSE LET mid == lo + ((hi - lo) \div 2)
         IN IF a[mid + 1] < v THEN BinSearch(a, v, mid + 1, hi)
                              ELSE BinSearch(a, v, lo, mid)
SearchSorted(a, v) == BinSearch(a, v, 0, Len(a))

\* _sample_categorical, given the uniforms u that rng.random(size) returned.
BadSampleCategorical(probs, u) ==
    LET cumprobs == CumSum(probs)
    IN [j \in 1..Len(u) |-> SearchSorted(cumprobs, u[j])]
SampleCategorical(probs, u) ==
    LET cumprobs == [CumSum(probs) EXCEPT ![Len(probs)] = One]
    IN [j \in 1..Len(u) |-> SearchSorted(cumprobs, u[j])]

setup_probs == [s \in 1..S |-> config.setups[s].probability]
scenario_probs(s) ==
    [k \in 1..Len(config.setups[s].scenarios) |-> config.setups[s].scenarios[k].probability]
scenario_returns(s) ==
    [k \in 1..Len(config.setups[s].scenarios) |-> config.setups[s].scenarios[k].return_pct]

\* engine.py:20-34: seed the generator, build the lookup tables.
Begin ==
    /\ pc = "idle"
    /\ rng' = 0
    /\ kelly_fractions' = [s \in 1..S |-> GetEffectiveKelly(config, config.setups[s])]
    /\ pc' = "sample_setups"
    /\ UNCHANGED <<config, seed_stream, setup_indices, scenario_indices, period_returns,
                   setup_idx, result, first_result, ctor_vars, kelly_vars, analytics_vars, validator_vars, app_vars>>

\* engine.py:36-41: one categorical draw for all cells; allocate the outputs.
SampleSetups ==
    /\ pc = "sample_setups"
    /\ \E d \in Random(N * T) :
        LET idx == SampleCategorical(setup_probs, d[1])
        IN /\ setup_indices' = Matrix([i \in 1..N, t \in 1..T |-> idx[Flat(i, t)]])
           /\ seed_stream' = d[2]
    /\ rng' = rng + N * T
    /\ scenario_indices' = Matrix([i \in 1..N, t \in 1..T |-> Empty])
    /\ period_returns' = Matrix([i \in 1..N, t \in 1..T |-> Empty])
    /\ setup_idx' = 0
    /\ pc' = "sample_scenarios"
    /\ UNCHANGED <<config, kelly_fractions, result, first_result, ctor_vars, kelly_vars, analytics_vars, validator_vars, app_vars>>

\* mask = setup_indices == setup_idx, as the row-major positions it selects.
BadMask(s) == {c \in 2..(N * T) : \E i \in 1..N, t \in 1..T :
                   Flat(i, t) = c /\ setup_indices[i][t] = s}
Mask(s) == {c \in 1..(N * T) : \E i \in 1..N, t \in 1..T :
                Flat(i, t) = c /\ setup_indices[i][t] = s}
\* Position of cell c among the cells of mask m, in row-major order.
Rank(m, c) == Cardinality({x \in m : x <= c})

\* engine.py:43-50: one iteration of the loop over setups.
SampleScenarios ==
    /\ pc = "sample_scenarios"
    /\ setup_idx < S
    /\ LET mask == Mask(setup_idx)
           count == Cardinality(mask)
       IN IF count = 0
          THEN UNCHANGED <<rng, seed_stream, scenario_indices, period_returns, pc>>
          ELSE \E d \in Random(count) :
                LET sc_idx == SampleCategorical(scenario_probs(setup_idx + 1), d[1])
                    rets == scenario_returns(setup_idx + 1)
                IN /\ seed_stream' = d[2]
                   /\ rng' = rng + count
                   /\ IF \E j \in 1..count : sc_idx[j] >= Len(rets)
                      THEN \* scenario_returns[setup_idx][sc_idx] raises IndexError
                           /\ pc' = "IndexError"
                           /\ UNCHANGED <<scenario_indices, period_returns>>
                      ELSE /\ pc' = pc
                           /\ scenario_indices' = Matrix([i \in 1..N, t \in 1..T |->
                                IF Flat(i, t) \in mask
                                THEN Some(sc_idx[Rank(mask, Flat(i, t))])
                                ELSE scenario_indices[i][t]])
                           /\ period_returns' = Matrix([i \in 1..N, t \in 1..T |->
                                IF Flat(i, t) \in mask
                                THEN Some(rets[sc_idx[Rank(mask, Flat(i, t))] + 1])
                                ELSE period_returns[i][t]])
    /\ setup_idx' = setup_idx + 1
    /\ UNCHANGED <<config, kelly_fractions, setup_indices, result, first_result, ctor_vars, kelly_vars, analytics_vars, validator_vars, app_vars>>

\* np.cumprod along a row.
RECURSIVE Prod(_)
Prod(s) == IF s = <<>> THEN 1 ELSE s[1] * Prod(Tail(s))
BadCumProd(row) == [t \in 1..Len(row) |-> SumSeq(SubSeq(row, 1, t))]
CumProd(row) == [t \in 1..Len(row) |-> Prod(SubSeq(row, 1, t))]

\* engine.py:57: growth_factors = 1.0 + effective_kelly * period_returns
BadGrowthFactor(f, r) == GScale + KScale * r
GrowthFactor(f, r) == GScale + f * r

\* engine.py:60-62: column 0 is the initial capital, column t the capital
\* times the cumulative growth of the first t periods.
BadPortfolioValues(initial_capital, cum_growth) ==
    [i \in 1..Len(cum_growth) |-> [c \in 1..Len(cum_growth[i]) |->
        initial_capital * cum_growth[i][c]]]
PortfolioValues(initial_capital, cum_growth) ==
    [i \in 1..Len(cum_growth) |-> [c \in 1..(Len(cum_growth[i]) + 1) |->
        IF c = 1 THEN initial_capital ELSE initial_capital * cum_growth[i][c - 1]]]

\* The cells of period_returns that no mask assigned.
Unassigned == {c \in 1..(N * T) : \E i \in 1..N, t \in 1..T :
                    Flat(i, t) = c /\ period_returns[i][t] = Empty}

\* engine.py:52-70: Kelly per cell, compounding, the result.
Finish ==
    /\ pc = "sample_scenarios"
    /\ setup_idx = S
    /\ IF \E i \in 1..N, t \in 1..T : setup_indices[i][t] >= S
       THEN \* kelly_fractions_arr[setup_indices] raises IndexError
            /\ pc' = "IndexError"
            /\ UNCHANGED result
       ELSE \E garbage \in [Unassigned -> GarbageReturns] :
            LET effective_kelly == Matrix([i \in 1..N, t \in 1..T |-> kelly_fractions[setup_indices[i][t] + 1]])
                returns == Matrix([i \in 1..N, t \in 1..T |->
                    IF period_returns[i][t] = Empty THEN garbage[Flat(i, t)]
                    ELSE period_returns[i][t][1]])
                growth_factors == Matrix([i \in 1..N, t \in 1..T |->
                    GrowthFactor(effective_kelly[i][t], returns[i][t])])
                cum_growth == [i \in 1..N |-> CumProd(growth_factors[i])]
            IN /\ result' = Some([
                      portfolio_values |-> PortfolioValues(config.initial_capital, cum_growth),
                      period_returns |-> returns,
                      setup_indices |-> setup_indices,
                      scenario_indices |-> scenario_indices,
                      config |-> config])
               /\ pc' = "returned"
    /\ UNCHANGED <<config, rng, seed_stream, kelly_fractions, setup_indices, scenario_indices,
                   period_returns, setup_idx, first_result, ctor_vars, kelly_vars, analytics_vars, validator_vars, app_vars>>

\* test_deterministic_with_seed: the caller keeps the result and calls
\* run_simulation on the same seeded config a second time.
CallAgain ==
    /\ pc = "returned"
    /\ first_result = None
    /\ config.seed # None
    /\ first_result' = result
    /\ result' = None
    /\ pc' = "idle"
    /\ UNCHANGED <<config, rng, seed_stream, kelly_fractions, setup_indices, scenario_indices,
                   period_returns, setup_idx, ctor_vars, kelly_vars, analytics_vars, validator_vars, app_vars>>

(***************************************************************************)
(* The configs the engine is run on: built by the constructors.            *)
(***************************************************************************)
Sc(name, probability, return_pct) == Scenario(name, probability, return_pct).obj[1]

\* A win and a loss; a probability-0 scenario first, in the middle and last,
\* the latter two in setups whose probabilities sum to 0.9999995.
WinLoss == <<Sc(<<"W">>, Half, 5), Sc(<<"L">>, Half, -9)>>
EngineScenarioTuples ==
    { WinLoss,
      <<Sc(<<"N">>, 0, -9), Sc(<<"C">>, One, 1)>>,
      <<Sc(<<"W">>, Half, 5), Sc(<<"N">>, 0, -9), Sc(<<"L">>, Half - 5, 0)>>,
      <<Sc(<<"W">>, Half, 5), Sc(<<"L">>, Half - 5, 0), Sc(<<"N">>, 0, -9)>> }

\* Setups without a Kelly override, and the win/loss setup with override 2.0.
EngineSetups ==
    LET args == ({Half, One} \X EngineScenarioTuples \X {None})
                    \cup ({Half, One} \X {WinLoss} \X {Some(4)})
    IN {Setup(<<"S">>, a[1], a[2], a[3]).obj[1] :
            a \in {b \in args : Setup(<<"S">>, b[1], b[2], b[3]).exc = NoExc}}

Shapes == {sh \in (1..MaxCells) \X (1..MaxCells) : sh[1] * sh[2] <= MaxCells}

EngineConfigs ==
    LET args == TupleSet(EngineSetups, 1, MaxSetups) \X Shapes \X SeedArgs
        new(a) == SimulationConfig(a[1], a[2][1], a[2][2], 100, 1, a[3])
    IN {new(a).obj[1] : a \in {b \in args : new(b).exc = NoExc}}

Init ==
    /\ CtorIdle
    /\ KellyIdle
    /\ AnalyticsIdle
    /\ ValidatorIdle
    /\ AppIdle
    /\ config \in EngineConfigs
    /\ pc = "idle"
    /\ rng = 0
    /\ seed_stream = <<>>
    /\ kelly_fractions = <<>>
    /\ setup_indices = <<>>
    /\ scenario_indices = <<>>
    /\ period_returns = <<>>
    /\ setup_idx = 0
    /\ result = None
    /\ first_result = None

Next == Begin \/ SampleSetups \/ SampleScenarios \/ Finish \/ CallAgain
Spec == Init /\ [][Next]_vars

(***************************************************************************)
(* Properties of run_simulation (checked under Spec)                       *)
(***************************************************************************)
HasReturned == pc = "returned"
R == result[1]
Cells == (1..N) \X (1..T)
\* The Kelly fraction the spec prescribes for setup number s (1-based).
PrescribedKelly(s) ==
    IF config.setups[s].kelly_fraction = None
    THEN config.default_kelly_fraction
    ELSE config.setups[s].kelly_fraction[1]

\* C1: for every config the constructors accept, every entry of
\* portfolio_values is strictly greater than 0 (the numerator's sign is the
\* value's sign: the denominator GScale^t is positive).
PortfolioValuesPositive ==
    HasReturned =>
        \A i \in 1..Len(R.portfolio_values) :
            \A c \in 1..Len(R.portfolio_values[i]) : R.portfolio_values[i][c] > 0

\* C2: two calls of run_simulation on the same config with an integer seed
\* return identical portfolio_values, period_returns and setup_indices.
SeededRunsIdentical ==
    (HasReturned /\ first_result # None /\ config.seed # None) =>
        /\ R.portfolio_values = first_result[1].portfolio_values
        /\ R.period_returns = first_result[1].period_returns
        /\ R.setup_indices = first_result[1].setup_indices
\* A second seeded run has returned, and its draws were not all alike.
SeededRunsIdenticalWitness ==
    /\ HasReturned /\ first_result # None /\ config.seed # None
    /\ S = 2 /\ T = 2
    /\ R.setup_indices[1] = <<1, 0>>
    /\ R.period_returns[1][1] # R.period_returns[1][2]

\* C3: portfolio_values[i][t+1] = portfolio_values[i][t] * (1 + k * r) with k
\* the effective Kelly fraction of the setup drawn in cell (i, t) and r the
\* cell's raw return.  Column c of the model is t = c - 1, its numerator is
\* over GScale^(c-1), so the factor is the numerator GScale + k * r.
CompoundingRecurrence ==
    HasReturned =>
        \A x \in Cells :
            LET i == x[1]
                t == x[2]
                k == PrescribedKelly(R.setup_indices[i][t] + 1)
                r == R.period_returns[i][t]
            IN R.portfolio_values[i][t + 1] = R.portfolio_values[i][t] * (GScale + k * r)
\* A two-period path that drew a setup with an override and then one without,
\* both with a return other than 0.
CompoundingRecurrenceWitness ==
    /\ HasReturned /\ S = 2 /\ T = 2
    /\ config.setups[1].kelly_fraction # None /\ config.setups[2].kelly_fraction = None
    /\ R.setup_indices[1] = <<0, 1>>
    /\ R.period_returns[1][1] # 0 /\ R.period_returns[1][2] # 0

\* C4: portfolio_values has shape (N, T+1) with column 0 = initial_capital;
\* period_returns, setup_indices and scenario_indices have shape (N, T).
IsShape(m, rows, cols) == Len(m) = rows /\ \A i \in 1..Len(m) : Len(m[i]) = cols
ResultShapes ==
    HasReturned =>
        /\ IsShape(R.portfolio_values, config.num_simulations, config.num_periods + 1)
        /\ \A i \in 1..Len(R.portfolio_values) :
                R.portfolio_values[i][1] = config.initial_capital
        /\ IsShape(R.period_returns, config.num_simulations, config.num_periods)
        /\ IsShape(R.setup_indices, config.num_simulations, config.num_periods)
        /\ IsShape(R.scenario_indices, config.num_simulations, config.num_periods)
\* A run with a single simulation of two periods has returned.
ResultShapesWitness ==
    /\ HasReturned /\ config.num_simulations = 1 /\ config.num_periods = 2
    /\ Len(R.portfolio_values[1]) = 3

\* C5: every setup index is in [0, S), every scenario index drawn for a cell
\* of setup s is in [0, number of scenarios of s), and the sampler never
\* returns the vector length (which would raise IndexError).
IndicesInRange ==
    /\ pc # "IndexError"
    /\ pc \in {"sample_scenarios", "returned"} =>
        \A x \in Cells :
            LET s == setup_indices[x[1]][x[2]]
                k == scenario_indices[x[1]][x[2]]
            IN /\ 0 <= s /\ s < S
               /\ k # Empty => 0 <= k[1] /\ k[1] < Len(config.setups[s + 1].scenarios)
               /\ (k = Empty) = (period_returns[x[1]][x[2]] = Empty)
    /\ HasReturned => \A x \in Cells : R.scenario_indices[x[1]][x[2]] # Empty
\* A cell drew the last scenario of a setup whose probabilities sum to less
\* than 1 (within the tolerance), and the last setup.
IndicesInRangeWitness ==
    /\ HasReturned /\ S = 2
    /\ \E x \in Cells :
        LET s == R.setup_indices[x[1]][x[2]] + 1
        IN /\ s = S
           /\ SumSeq(scenario_probs(s)) < One
           /\ R.scenario_indices[x[1]][x[2]][1] = Len(config.setups[s].scenarios) - 1

\* C6: a scenario of probability exactly 0 is never drawn, wherever it
\* stands in its setup and whatever the uniform draw.
ZeroProbabilityNeverDrawn ==
    pc \in {"sample_scenarios", "returned"} =>
        \A x \in Cells :
            LET s == setup_indices[x[1]][x[2]] + 1
                k == scenario_indices[x[1]][x[2]]
            IN k # Empty => config.setups[s].scenarios[k[1] + 1].probability # 0

\* C7: get_effective_kelly returns the setup's kelly_fraction when it is set
\* and the config's default otherwise, and the value is > 0.
EffectiveKellyResolved ==
    pc # "idle" =>
        /\ Len(kelly_fractions) = S
        /\ \A s \in 1..S :
            /\ kelly_fractions[s] = PrescribedKelly(s)
            /\ kelly_fractions[s] > 0
\* The table was built for a config with an override and a default setup.
EffectiveKellyResolvedWitness ==
    /\ pc = "sample_setups" /\ S = 2
    /\ config.setups[1].kelly_fraction = Some(4) /\ config.setups[2].kelly_fraction = None
    /\ kelly_fractions = <<4, config.default_kelly_fraction>>

(***************************************************************************)
(* Properties of the constructors (checked under SpecModels)               *)
(***************************************************************************)
Blank(name) == \A i \in 1..Len(name) : name[i] = " "
Probabilities(objs) == [i \in 1..Len(objs) |-> objs[i].probability]
Called(fn) == ctor_call.fn = fn

ScenarioDefect(a) ==
    \/ a.probability < 0 \/ a.probability > One
    \/ a.return_pct <= -RScale
    \/ Blank(a.name)
SetupDefect(a) ==
    \/ Blank(a.name)
    \/ a.probability <= 0 \/ a.probability > One
    \/ Len(a.scenarios) < 2
    \/ (a.kelly_fraction # None /\ a.kelly_fraction[1] <= 0)
SimulationConfigDefect(a) ==
    \/ Len(a.setups) = 0
    \/ a.num_simulations < 1
    \/ a.num_periods < 1
    \/ a.initial_capital <= 0
    \/ a.default_kelly_fraction <= 0
HasDefect ==
    \/ Called("Scenario") /\ ScenarioDefect(ctor_call.args)
    \/ Called("Setup") /\ SetupDefect(ctor_call.args)
    \/ Called("SimulationConfig") /\ SimulationConfigDefect(ctor_call.args)

\* C8: a constructor call with any of the listed defects raises ValueError
\* and yields no object; an object that exists has none of them.
ConstructionAllOrNothing ==
    /\ HasDefect => ctor_exc.type = "ValueError" /\ ctor_obj = None
    /\ ctor_exc # NoExc => ctor_obj = None
    /\ ctor_obj # None => ~HasDefect /\ ctor_exc = NoExc /\ ctor_obj[1] = ctor_call.args
\* Scenario was called with a return of exactly -100% and nothing else wrong.
ConstructionAllOrNothingWitness ==
    /\ Called("Scenario")
    /\ ctor_call.args.return_pct = -RScale
    /\ ctor_call.args.probability = Half /\ ~Blank(ctor_call.args.name)
    /\ ctor_exc.type = "ValueError" /\ ctor_obj = None

\* C9: Setup and SimulationConfig raise ValueError whenever the sum of the
\* probabilities differs from 1.0 by more than 1e-6, and accept sums within
\* 1e-6 of 1.0 (when nothing else is wrong).
OffByMoreThanAtol(total) == Abs(total - One) > One \div AtolInv
SumToleranceEnforced ==
    /\ Called("Setup") =>
        LET total == SumSeq(Probabilities(ctor_call.args.scenarios))
        IN /\ OffByMoreThanAtol(total) => ctor_exc.type = "ValueError"
           /\ ~OffByMoreThanAtol(total) /\ ~HasDefect => ctor_exc = NoExc
    /\ Called("SimulationConfig") =>
        LET total == SumSeq(Probabilities(ctor_call.args.setups))
        IN /\ OffByMoreThanAtol(total) => ctor_exc.type = "ValueError"
           /\ ~OffByMoreThanAtol(total) /\ ~HasDefect => ctor_exc = NoExc

(***************************************************************************)
(* kelly.py: compute_kelly_fraction                                        *)
(*                                                                         *)
(* The setups passed here carry scenario probabilities in whole tenths,    *)
(* so that every sum below is exact in small integers:                     *)
(*   expected_return  numerator over PParts * RScale                       *)
(*   variance         numerator over PParts^3 * RScale^2                   *)
(*   optimal_fraction in 1/KScale                                          *)
(* A value of G(f) = sum_i p_i * ln(1 + f * r_i) is kept as its terms      *)
(* <<p_i, 1 + f * r_i>> (the latter a numerator over GScale) with a sign;  *)
(* the literal 0.0 is the sum of no terms.                                 *)
(***************************************************************************)
MaxKellyScenarios == 3    \* longest scenarios tuple of a setup passed to the solver

PUnit == One \div 10
PParts == One \div PUnit

FMaxDefault == 10

\* np.dot
Dot(a, b) == SumSeq([i \in 1..Len(a) |-> a[i] * b[i]])
\* ndarray.min
Min(a) == CHOOSE x \in {a[i] : i \in 1..Len(a)} : \A i \in 1..Len(a) : x <= a[i]

KellyProbs(setup) ==
    [i \in 1..Len(setup.scenarios) |-> setup.scenarios[i].probability \div PUnit]
KellyReturns(setup) ==
    [i \in 1..Len(setup.scenarios) |-> setup.scenarios[i].return_pct]

ExpectedReturn(probs, returns) == Dot(probs, returns)
Variance(probs, returns, expected_return) ==
    Dot(probs, [i \in 1..Len(returns) |-> (PParts * returns[i] - expected_return) ^ 2])

\* "If expected return is non-positive, Kelly says don't bet"
BadNoBet(expected_return) == expected_return < 0
NoBet(expected_return) == expected_return <= 0

\* f_max = -1.0 / min_return - 1e-9, or 10.0: the bound num / den, less the
\* 1e-9 when open.
BadFMax(min_return) ==
    IF min_return < 0
    THEN [num |-> RScale, den |-> -min_return, open |-> FALSE]
    ELSE [num |-> FMaxDefault, den |-> 1, open |-> FALSE]
FMax(min_return) ==
    IF min_return < 0
    THEN [num |-> RScale, den |-> -min_return, open |-> TRUE]
    ELSE [num |-> FMaxDefault, den |-> 1, open |-> FALSE]
\* f <= f_max, for f a whole number of 1/KScale: the 1e-9 is less than one
\* step of f, so it makes the comparison strict.
WithinFMax(f, f_max) ==
    IF f_max.open THEN f * f_max.den < KScale * f_max.num
                  ELSE f * f_max.den <= KScale * f_max.num

ZeroGrowth == [sign |-> 1, terms |-> <<>>]
Neg(g) == [sign |-> -g.sign, terms |-> g.terms]
LogTerms(probs, returns, f) ==
    [i \in 1..Len(returns) |-> [p |-> probs[i], term |-> GScale + f * returns[i]]]
BadNegExpectedLogGrowth(probs, returns, f) ==
    [sign |-> 1, terms |-> LogTerms(probs, returns, f)]
neg_expected_log_growth(probs, returns, f) ==
    Neg([sign |-> 1, terms |-> LogTerms(probs, returns, f)])

\* Exact order of the values sign * sum_i p_i * ln(term_i / GScale), the p_i
\* whole numbers that sum to at most PParts: the sum is the logarithm of
\*   prod_i term_i^p_i * GScale^(PParts - sum_i p_i)  /  GScale^PParts,
\* so two values of one sign compare as these products do.  A product
\* exceeds 32 bits and is kept as limbs, lowest first.
Limb == 10 ^ 4
RECURSIVE MulSmall(_, _, _)
MulSmall(n, k, carry) ==
    IF n = <<>>
    THEN IF carry = 0 THEN <<>> ELSE <<carry % Limb>> \o MulSmall(<<>>, k, carry \div Limb)
    ELSE <<(n[1] * k + carry) % Limb>> \o MulSmall(Tail(n), k, (n[1] * k + carry) \div Limb)
RECURSIVE MulPow(_, _, _)
MulPow(n, k, e) == IF e = 0 THEN n ELSE MulPow(MulSmall(n, k, 0), k, e - 1)
RECURSIVE LeqLimbs(_, _)
LeqLimbs(a, b) ==
    IF Len(a) # Len(b) THEN Len(a) < Len(b)
    ELSE IF a = <<>> THEN TRUE
    ELSE IF a[Len(a)] # b[Len(b)] THEN a[Len(a)] < b[Len(b)]
    ELSE LeqLimbs(SubSeq(a, 1, Len(a) - 1), SubSeq(b, 1, Len(b) - 1))
RECURSIVE TermsProduct(_, _, _)
TermsProduct(terms, n, rest) ==
    IF terms = <<>> THEN MulPow(n, GScale, rest)
    ELSE TermsProduct(Tail(terms), MulPow(n, terms[1].term, terms[1].p), rest - terms[1].p)
GrowthProduct(g) == TermsProduct(g.terms, <<1>>, PParts)
\* a <= b, for a and b the products of two values of the given sign
LeqGrowth(sign, a, b) == IF sign = 1 THEN LeqLimbs(a, b) ELSE LeqLimbs(b, a)

\* xatol of minimize_scalar: one step of f stands for it.
XTol == 1

\* scipy.optimize.minimize_scalar(fun, bounds=(0.0, f_max), method="bounded"):
\* the set of results it may return, each a point of the bounds within xatol
\* of a minimum of the objective over the bounds, with the objective's value
\* there; it raises ValueError when the lower bound exceeds the upper bound.
minimize_scalar(probs, returns, f_max) ==
    LET xs == {f \in 0..(FMaxDefault * KScale) : WithinFMax(f, f_max)}
        evals == {[x |-> f, fun |-> neg_expected_log_growth(probs, returns, f)] : f \in xs}
        vals == {[x |-> e.x, sign |-> e.fun.sign, val |-> GrowthProduct(e.fun)] : e \in evals}
        minima == {m.x : m \in {v \in vals : \A w \in vals : LeqGrowth(v.sign, v.val, w.val)}}
    IN IF xs = {}
       THEN {[exc |-> ValueError("The lower bound exceeds the upper bound."),
              x |-> 0, fun |-> ZeroGrowth]}
       ELSE {[exc |-> NoExc, x |-> e.x, fun |-> e.fun] :
                e \in {d \in evals : \E m \in minima : Abs(d.x - m) <= XTol}}

\* optimal_f < 1e-8
NearZero(optimal_f) == optimal_f < 1

\* f"{x:.0%}": round half to even
RoundHalfEven(num, den) ==
    LET q == num \div den
        r == num % den
    IN IF 2 * r > den \/ (2 * r = den /\ q % 2 = 1) THEN q + 1 ELSE q

\* one line per scenario: name, probability in whole percent, the sign
\* printed before a non-negative return, the return in tenths of a percent
_build_odds_description(setup) ==
    [i \in 1..Len(setup.scenarios) |->
        LET sc == setup.scenarios[i]
        IN [name |-> sc.name,
            probability |-> RoundHalfEven(sc.probability * 100, One),
            sign |-> IF sc.return_pct >= 0 THEN "+" ELSE "",
            return_pct |-> (sc.return_pct * 1000) \div RScale]]

KellyInfo(setup, optimal_fraction, expected_log_growth, expected_return, variance) ==
    [setup_name |-> setup.name,
     optimal_fraction |-> optimal_fraction,
     expected_log_growth |-> expected_log_growth,
     expected_return |-> expected_return,
     variance |-> variance,
     edge |-> expected_return,
     odds_description |-> _build_odds_description(setup)]

\* The outcomes of compute_kelly_fraction(setup): [exc, ret].
compute_kelly_fraction(setup) ==
    LET probs == KellyProbs(setup)
        returns == KellyReturns(setup)
        expected_return == ExpectedReturn(probs, returns)
        variance == Variance(probs, returns, expected_return)
        outcome(res) ==
            IF res.exc # NoExc THEN [exc |-> res.exc, ret |-> None]
            ELSE IF NearZero(res.x)
            THEN [exc |-> NoExc,
                  ret |-> Some(KellyInfo(setup, 0, ZeroGrowth, expected_return, variance))]
            ELSE [exc |-> NoExc,
                  ret |-> Some(KellyInfo(setup, res.x, Neg(res.fun),
                                         expected_return, variance))]
    IN IF NoBet(expected_return)
       THEN {[exc |-> NoExc,
              ret |-> Some(KellyInfo(setup, 0, ZeroGrowth, expected_return, variance))]}
       ELSE {outcome(res) :
                res \in minimize_scalar(probs, returns, FMax(Min(returns)))}

KellyProbArgs == {0, 4 * PUnit, 5 * PUnit, 6 * PUnit, One}
KellyReturnArgs == {-5, -1, 0, 1, 2}
KellyName(i) == [j \in 1..i |-> "x"]

\* The scenarios of a setup passed to the solver, from their probabilities
\* and returns.
KellyScenarios(pv, rv) == [i \in 1..Len(pv) |-> Sc(KellyName(i), pv[i], rv[i])]

\* compute_kelly_fraction(setup), on a setup the constructor returned.
ComputeKellyFraction ==
    /\ KellyIdle
    /\ \E n \in 2..MaxKellyScenarios :
       \E pv \in [1..n -> KellyProbArgs] :
          /\ SumSeq(pv) = One
          /\ \E rv \in [1..n -> KellyReturnArgs] :
             LET new == Setup(<<"K">>, One, KellyScenarios(pv, rv), None)
             IN /\ new.exc = NoExc
                /\ \E out \in compute_kelly_fraction(new.obj[1]) :
                      /\ kelly_arg' = new.obj
                      /\ kelly_exc' = out.exc
                      /\ kelly_ret' = out.ret
    /\ UNCHANGED <<ctor_vars, engine_vars, analytics_vars, validator_vars, app_vars, growth_vars, blend_vars>>

\* float("-inf"), and a finite value sign * sum_i p_i * ln(term_i / GScale)
NegInf == [inf |-> TRUE, sign |-> -1, terms |-> <<>>]
Finite(g) == [inf |-> FALSE, sign |-> g.sign, terms |-> g.terms]

\* kelly.py:84-92.  The function has no raise of its own; np.log is only
\* reached with every term positive.
BadExpectedLogGrowthAt(setup, fraction) ==
    LET probs == KellyProbs(setup)
        returns == KellyReturns(setup)
        terms == LogTerms(probs, returns, fraction)
    IN IF \E i \in 1..Len(terms) : probs[i] > 0 /\ terms[i].term <= 0
       THEN [exc |-> NoExc, ret |-> Some(NegInf)]
       ELSE [exc |-> NoExc, ret |-> Some(Finite([sign |-> 1, terms |-> terms]))]
expected_log_growth_at(setup, fraction) ==
    LET probs == KellyProbs(setup)
        returns == KellyReturns(setup)
        terms == LogTerms(probs, returns, fraction)
    IN IF \E i \in 1..Len(terms) : terms[i].term <= 0
       THEN [exc |-> NoExc, ret |-> Some(NegInf)]
       ELSE [exc |-> NoExc, ret |-> Some(Finite([sign |-> 1, terms |-> terms]))]

\* fractions passed to expected_log_growth_at, in 1/KScale: 0.0, feasible
\* ones, and ones that reach or pass 1 / |return| of a loss or of a gain
FractionArgs == {-20, 0, 1, 4, 20}
GrowthProbArgs == {0, Half, One}
GrowthReturnArgs == {-5, 0, 2}

\* expected_log_growth_at(setup, fraction), on a setup the constructor
\* returned.
ExpectedLogGrowthAt ==
    /\ KellyIdle
    /\ \E n \in 2..MaxKellyScenarios :
       \E pv \in [1..n -> GrowthProbArgs] :
          /\ SumSeq(pv) = One
          /\ \E rv \in [1..n -> GrowthReturnArgs], fraction \in FractionArgs :
             LET new == Setup(<<"K">>, One, KellyScenarios(pv, rv), None)
                 out == expected_log_growth_at(new.obj[1], fraction)
             IN /\ new.exc = NoExc
                /\ growth_arg' = Some([setup |-> new.obj[1], fraction |-> fraction])
                /\ growth_exc' = out.exc
                /\ growth_ret' = out.ret
    /\ UNCHANGED <<ctor_vars, engine_vars, analytics_vars, validator_vars, app_vars, solver_vars, blend_vars>>

\* kelly.py:75-81: the loop from the k-th setup on, with the sum so far; the
\* sum is a numerator over One * KScale.  An exception of
\* compute_kelly_fraction leaves the function.
RECURSIVE BadBlendFrom(_, _, _)
BadBlendFrom(setups, k, weighted_sum) ==
    IF k > Len(setups) THEN {[exc |-> NoExc, ret |-> Some(weighted_sum)]}
    ELSE UNION {IF info.exc # NoExc
                THEN {[exc |-> info.exc, ret |-> None]}
                ELSE BadBlendFrom(setups, k + 1, weighted_sum + One * info.ret[1].optimal_fraction) :
                   info \in compute_kelly_fraction(setups[k])}
RECURSIVE BlendFrom(_, _, _)
BlendFrom(setups, k, weighted_sum) ==
    IF k > Len(setups) THEN {[exc |-> NoExc, ret |-> Some(weighted_sum)]}
    ELSE UNION {IF info.exc # NoExc
                THEN {[exc |-> info.exc, ret |-> None]}
                ELSE BlendFrom(setups, k + 1,
                               weighted_sum + setups[k].probability * info.ret[1].optimal_fraction) :
                   info \in compute_kelly_fraction(setups[k])}
compute_blended_kelly(setups) == BlendFrom(setups, 1, 0)

MaxBlendSetups == 2
\* scenarios of the setups passed to compute_blended_kelly: the 60/40 bet,
\* its mirror with a smaller edge, a bet without edge, and a sure gain
\* beside a loss of probability 0
BlendScenarioTuples ==
    { <<Sc(<<"W">>, 6 * PUnit, 2), Sc(<<"L">>, 4 * PUnit, -1)>>,
      <<Sc(<<"W">>, 4 * PUnit, 2), Sc(<<"L">>, 6 * PUnit, -1)>>,
      <<Sc(<<"W">>, 4 * PUnit, 1), Sc(<<"L">>, 6 * PUnit, -1)>>,
      <<Sc(<<"W">>, One, 2), Sc(<<"L">>, 0, -5)>> }
BlendSetups ==
    {new.obj[1] : new \in {c \in {Setup(<<"B">>, p, scs, None) :
                                    p \in {Half, One}, scs \in BlendScenarioTuples} :
                              c.exc = NoExc}}

\* compute_blended_kelly(setups), on a tuple of setups the constructor
\* returned.
ComputeBlendedKelly ==
    /\ KellyIdle
    /\ \E setups \in TupleSet(BlendSetups, 0, MaxBlendSetups) :
       \E out \in compute_blended_kelly(setups) :
          /\ blend_arg' = Some(setups)
          /\ blend_exc' = out.exc
          /\ blend_ret' = out.ret
    /\ UNCHANGED <<ctor_vars, engine_vars, analytics_vars, validator_vars, app_vars, solver_vars, growth_vars>>

InitKelly == CtorIdle /\ EngineIdle /\ KellyIdle /\ AnalyticsIdle /\ ValidatorIdle /\ AppIdle
NextKelly == ComputeKellyFraction \/ ExpectedLogGrowthAt \/ ComputeBlendedKelly
SpecKelly == InitKelly /\ [][NextKelly]_vars

(***************************************************************************)
(* Properties of the Kelly solver (checked under SpecKelly)                *)
(***************************************************************************)
(***************************************************************************)
(* analytics.py.  A float is an exact rational [num, den], den > 0, in    *)
(* lowest terms; a square root, a logarithm or an n-th root is kept as    *)
(* the expression of its rational argument.                               *)
(***************************************************************************)
RECURSIVE GCD(_, _)
GCD(a, b) == IF b = 0 THEN a ELSE GCD(b, a % b)
Rat(n, d) ==
    LET g == GCD(Abs(n), Abs(d))
        sgn == IF d < 0 THEN -1 ELSE 1
    IN [num |-> (sgn * n) \div g, den |-> (sgn * d) \div g]
RInt(n) == [num |-> n, den |-> 1]
LCM(a, b) == (a \div GCD(a, b)) * b
RAdd(a, b) ==
    LET l == LCM(a.den, b.den)
    IN Rat(a.num * (l \div a.den) + b.num * (l \div b.den), l)
RSub(a, b) == RAdd(a, [num |-> -b.num, den |-> b.den])
RMul(a, b) ==
    LET g == GCD(Abs(a.num), b.den)
        h == GCD(Abs(b.num), a.den)
    IN Rat((a.num \div g) * (b.num \div h), (a.den \div h) * (b.den \div g))
RDiv(a, b) ==
    IF b.num < 0 THEN RMul(a, [num |-> -b.den, den |-> -b.num])
    ELSE RMul(a, [num |-> b.den, den |-> b.num])
RLt(a, b) ==
    LET l == LCM(a.den, b.den)
    IN a.num * (l \div a.den) < b.num * (l \div b.den)
RLeq(a, b) ==
    LET l == LCM(a.den, b.den)
    IN a.num * (l \div a.den) <= b.num * (l \div b.den)
RECURSIVE RSum(_)
RSum(a) == IF a = <<>> THEN RInt(0) ELSE RAdd(a[1], RSum(Tail(a)))
\* np.mean, np.min, np.max of a non-empty 1-D array
RMean(a) == RDiv(RSum(a), RInt(Len(a)))
RMin(a) == CHOOSE x \in {a[i] : i \in 1..Len(a)} : \A i \in 1..Len(a) : RLeq(x, a[i])
RMax(a) == CHOOSE x \in {a[i] : i \in 1..Len(a)} : \A i \in 1..Len(a) : RLeq(a[i], x)
\* np.std (population): the square root of the mean squared deviation
Sqrt(x) == [sqrt_of |-> x]
PopVariance(a) ==
    LET mu == RMean(a)
    IN RMean([i \in 1..Len(a) |-> RMul(RSub(a[i], mu), RSub(a[i], mu))])
Std(a) == Sqrt(PopVariance(a))
\* a[mask] and arr.flatten()
RECURSIVE Masked(_, _)
BadMasked(a, mask) == a
Masked(a, mask) ==
    IF a = <<>> THEN <<>>
    ELSE (IF mask[1] THEN <<a[1]>> ELSE <<>>) \o Masked(Tail(a), Tail(mask))
RECURSIVE Flatten(_)
Flatten(m) == IF m = <<>> THEN <<>> ELSE m[1] \o Flatten(Tail(m))
\* the sort inside np.percentile and np.median
RECURSIVE Insert(_, _)
Insert(x, a) ==
    IF a = <<>> THEN <<x>>
    ELSE IF RLeq(x, a[1]) THEN <<x>> \o a
    ELSE <<a[1]>> \o Insert(x, Tail(a))
RECURSIVE Sort(_)
Sort(a) == IF a = <<>> THEN <<>> ELSE Insert(a[1], Sort(Tail(a)))
\* np.percentile(a, q), method "linear": the value at position
\* (n - 1) * q / 100 of the sorted array, interpolated between neighbours.
BadPercentile(a, q) ==
    LET srt == a
        n == Len(a)
        pos == (n - 1) * q
        lo == pos \div 100
        hi == IF lo + 1 < n THEN lo + 1 ELSE lo
        gamma == Rat(pos - 100 * lo, 100)
    IN RAdd(srt[lo + 1], RMul(RSub(srt[hi + 1], srt[lo + 1]), gamma))
Percentile(a, q) ==
    LET srt == Sort(a)
        n == Len(a)
        pos == (n - 1) * q
        lo == pos \div 100
        hi == IF lo + 1 < n THEN lo + 1 ELSE lo
        gamma == Rat(pos - 100 * lo, 100)
    IN RAdd(srt[lo + 1], RMul(RSub(srt[hi + 1], srt[lo + 1]), gamma))
\* np.median
Median(a) ==
    LET srt == Sort(a)
        n == Len(a)
    IN IF n % 2 = 1 THEN srt[(n + 1) \div 2]
       ELSE RMean(<<srt[n \div 2], srt[n \div 2 + 1]>>)

\* analytics.py:87-104, one row: the longest run of True, from the
\* positions where the row rises and falls.
RECURSIVE WhereFrom(_, _, _)
WhereFrom(d, v, k) ==
    IF k > Len(d) THEN <<>>
    ELSE (IF d[k] = v THEN <<k>> ELSE <<>>) \o WhereFrom(d, v, k + 1)
MaxInt(a) == CHOOSE x \in {a[i] : i \in 1..Len(a)} : \A i \in 1..Len(a) : a[i] <= x
BadRowMaxConsecutiveTrue(row) ==
    LET n_cols == Len(row)
        int8 == [k \in 1..n_cols |-> IF row[k] THEN 1 ELSE 0]
        d == [k \in 1..(n_cols - 1) |-> int8[k + 1] - int8[k]]
        starts == WhereFrom(d, 1, 1)
        ends == WhereFrom(d, -1, 1) \o (IF row[n_cols] THEN <<n_cols>> ELSE <<>>)
        lengths == [j \in 1..Len(starts) |-> ends[j] - starts[j]]
    IN IF \A k \in 1..n_cols : ~row[k] THEN 0
       ELSE IF Len(starts) > 0 /\ Len(ends) > 0 THEN MaxInt(lengths)
       ELSE 0
RowMaxConsecutiveTrue(row) ==
    LET n_cols == Len(row)
        int8 == [k \in 1..n_cols |-> IF row[k] THEN 1 ELSE 0]
        d == [k \in 1..(n_cols - 1) |-> int8[k + 1] - int8[k]]
        starts == (IF row[1] THEN <<0>> ELSE <<>>) \o WhereFrom(d, 1, 1)
        ends == WhereFrom(d, -1, 1) \o (IF row[n_cols] THEN <<n_cols>> ELSE <<>>)
        lengths == [j \in 1..Len(starts) |-> ends[j] - starts[j]]
    IN IF \A k \in 1..n_cols : ~row[k] THEN 0
       ELSE IF Len(starts) > 0 /\ Len(ends) > 0 THEN MaxInt(lengths)
       ELSE 0
_max_consecutive_true(arr) == [i \in 1..Len(arr) |-> RowMaxConsecutiveTrue(arr[i])]

\* _max_consecutive_true called on its own, as TestMaxConsecutiveTrue does,
\* on any boolean matrix of at most MaxEntries entries.
MaxEntries == 6
BoolMatrices == UNION {[1..sh[1] -> [1..sh[2] -> BOOLEAN]] :
                          sh \in {x \in (0..MaxEntries) \X (1..MaxEntries) : x[1] * x[2] <= MaxEntries}}
MaxConsecutiveTrue ==
    /\ run_arg = None
    /\ \E arr \in BoolMatrices :
          /\ run_arg' = Some(arr)
          /\ run_ret' = Some(_max_consecutive_true(arr))
    /\ UNCHANGED <<ctor_vars, engine_vars, kelly_vars, validator_vars, app_vars, report_vars>>
InitLongestRun == CtorIdle /\ EngineIdle /\ KellyIdle /\ AnalyticsIdle /\ ValidatorIdle /\ AppIdle
NextLongestRun == MaxConsecutiveTrue
SpecLongestRun == InitLongestRun /\ [][NextLongestRun]_vars

\* drawdowns < -1e-10, on a rational
DrawdownTolInv == 100000
BadInDrawdown(dd) == dd.num <= 0
InDrawdown(dd) == dd.num < 0 /\ (-dd.num) * DrawdownTolInv > dd.den \div DrawdownTolInv

PercentileKeys == {1, 5, 10, 25, 50, 75, 90, 95, 99}

\* analytics.py:59: the KellyInfo of each setup in order, or the first
\* exception a compute_kelly_fraction raised.
RECURSIVE KellyInfoFrom(_, _, _)
KellyInfoFrom(setups, k, infos) ==
    IF k > Len(setups) THEN {[exc |-> NoExc, ret |-> infos]}
    ELSE UNION {IF info.exc # NoExc
                THEN {[exc |-> info.exc, ret |-> <<>>]}
                ELSE KellyInfoFrom(setups, k + 1, Append(infos, info.ret[1])) :
                   info \in compute_kelly_fraction(setups[k])}

\* analytics.py:55: cvar_mask = terminal_pnl <= var_95
BadCVaRMask(terminal_pnl, var_95) == [i \in 1..Len(terminal_pnl) |-> RLt(terminal_pnl[i], var_95)]
CVaRMask(terminal_pnl, var_95) == [i \in 1..Len(terminal_pnl) |-> RLeq(terminal_pnl[i], var_95)]
\* analytics.py:50: ruin_threshold = initial * 0.10
BadRuinThreshold(initial) == RMul(initial, RInt(10))
RuinThreshold(initial) == RMul(initial, Rat(10, 100))
\* analytics.py:39: np.maximum.accumulate along one row
BadRunningMax(row) == [c \in 1..Len(row) |-> RMin(SubSeq(row, 1, c))]
RunningMax(row) == [c \in 1..Len(row) |-> RMax(SubSeq(row, 1, c))]
\* analytics.py:35-36: mean / std when std > 0, else 0.0 (kept as 0 over 1)
BadSharpeRatio(all_returns) ==
    [num |-> RMean(all_returns), den |-> Sqrt(PopVariance(all_returns))]
SharpeRatio(all_returns) ==
    LET var_returns == PopVariance(all_returns)
    IN IF RLt(RInt(0), var_returns)
       THEN [num |-> RMean(all_returns), den |-> Sqrt(var_returns)]
       ELSE [num |-> RInt(0), den |-> Sqrt(RInt(1))]

\* analytics.py:11-84.  portfolio_values[i][c] of the result is a numerator
\* over GScale^(c-1), period_returns a numerator over RScale.
compute_analytics(res) ==
    LET cfg == res.config
        n_sims == Len(res.portfolio_values)
        pv == [i \in 1..n_sims |-> [c \in 1..Len(res.portfolio_values[i]) |->
                  Rat(res.portfolio_values[i][c], GScale ^ (c - 1))]]
        n_periods == Len(pv[1]) - 1
        initial == RInt(cfg.initial_capital)
        terminal == [i \in 1..n_sims |-> pv[i][n_periods + 1]]
        terminal_percentiles == [q \in PercentileKeys |-> Percentile(terminal, q)]
        \* np.power(terminal / initial, 1.0 / n_periods) - 1.0, per path
        cagr_per_path == [i \in 1..n_sims |->
                             [base |-> RDiv(terminal[i], initial), root |-> n_periods]]
        \* np.log(pv[:, 1:] / pv[:, :-1])
        log_returns == [i \in 1..n_sims |-> [t \in 1..n_periods |->
                           [log_of |-> RDiv(pv[i][t + 1], pv[i][t])]]]
        all_returns == Flatten([i \in 1..n_sims |-> [t \in 1..n_periods |->
                           Rat(res.period_returns[i][t], RScale)]])
        sharpe == SharpeRatio(all_returns)
        running_max == [i \in 1..n_sims |-> RunningMax(pv[i])]
        drawdowns == [i \in 1..n_sims |-> [c \in 1..(n_periods + 1) |->
                         RDiv(RSub(pv[i][c], running_max[i][c]), running_max[i][c])]]
        max_dd_per_path == [i \in 1..n_sims |-> RMin(drawdowns[i])]
        is_in_drawdown == [i \in 1..n_sims |-> [c \in 1..(n_periods + 1) |->
                              InDrawdown(drawdowns[i][c])]]
        dd_durations == _max_consecutive_true(is_in_drawdown)
        in_drawdown == Masked(Flatten(drawdowns), Flatten(is_in_drawdown))
        avg_drawdown == IF in_drawdown # <<>> THEN RMean(in_drawdown) ELSE RInt(0)
        below(x) == [i \in 1..n_sims |-> IF RLt(terminal[i], x) THEN RInt(1) ELSE RInt(0)]
        prob_loss == RMean(below(initial))
        ruin_threshold == RuinThreshold(initial)
        prob_ruin == RMean(below(ruin_threshold))
        terminal_pnl == [i \in 1..n_sims |-> RSub(terminal[i], initial)]
        var_95 == Percentile(terminal_pnl, 5)
        cvar_mask == CVaRMask(terminal_pnl, var_95)
        tail == Masked(terminal_pnl, cvar_mask)
        cvar_95 == IF tail # <<>> THEN RMean(tail) ELSE var_95
        AnalyticsReport(kelly_info) == [
            terminal_mean |-> RMean(terminal),
            terminal_median |-> Median(terminal),
            terminal_std |-> Std(terminal),
            terminal_percentiles |-> terminal_percentiles,
            cagr_mean |-> [mean_of |-> cagr_per_path],
            cagr_median |-> [median_of |-> cagr_per_path],
            annualized_volatility |-> [mean_std_of |-> log_returns],
            sharpe_ratio |-> sharpe,
            max_drawdown_mean |-> RMean(max_dd_per_path),
            max_drawdown_median |-> Median(max_dd_per_path),
            max_drawdown_worst |-> RMin(max_dd_per_path),
            avg_drawdown |-> avg_drawdown,
            max_drawdown_duration_mean |->
                RMean([i \in 1..n_sims |-> RInt(dd_durations[i])]),
            probability_of_loss |-> prob_loss,
            probability_of_ruin |-> prob_ruin,
            var_95 |-> var_95,
            cvar_95 |-> cvar_95,
            kelly_info |-> kelly_info]
    IN {IF k.exc # NoExc THEN [exc |-> k.exc, ret |-> None]
        ELSE [exc |-> NoExc, ret |-> Some(AnalyticsReport(k.ret))] :
           k \in KellyInfoFrom(cfg.setups, 1, <<>>)}

\* compute_analytics(result), on a result run_simulation returned.
ComputeAnalytics ==
    /\ pc = "returned"
    /\ report = None /\ report_exc = NoExc
    /\ \E out \in compute_analytics(result[1]) :
          /\ report' = out.ret
          /\ report_exc' = out.exc
    /\ UNCHANGED <<ctor_vars, engine_vars, kelly_vars, validator_vars, app_vars, longest_run_vars>>

(***************************************************************************)
(* The results compute_analytics is run on: what run_simulation returns   *)
(* for a constructed config when its draws select the given setup and     *)
(* scenario in each cell.                                                  *)
(***************************************************************************)
MaxPaths == 5
MaxPeriods == 2
\* engine.py:53: kelly_fractions_arr[setup_indices], one cell
BadEffectiveKelly(kelly_fractions_arr, setup_index) == 0
EffectiveKelly(kelly_fractions_arr, setup_index) == kelly_fractions_arr[setup_index + 1]
\* engine.py:28-70 for given index matrices
RunOutput(cfg, cells) ==
    LET rows == 1..cfg.num_simulations
        cols == 1..cfg.num_periods
        kelly_fractions_arr == [k \in 1..Len(cfg.setups) |-> GetEffectiveKelly(cfg, cfg.setups[k])]
        returns == [i \in rows |-> [t \in cols |->
            cfg.setups[cells[i][t][1] + 1].scenarios[cells[i][t][2] + 1].return_pct]]
        growth_factors == [i \in rows |-> [t \in cols |->
            GrowthFactor(EffectiveKelly(kelly_fractions_arr, cells[i][t][1]), returns[i][t])]]
        cum_growth == [i \in rows |-> CumProd(growth_factors[i])]
    IN [portfolio_values |-> PortfolioValues(cfg.initial_capital, cum_growth),
        period_returns |-> returns,
        setup_indices |-> [i \in rows |-> [t \in cols |-> cells[i][t][1]]],
        scenario_indices |-> [i \in rows |-> [t \in cols |-> cells[i][t][2]]],
        config |-> cfg]
\* the (setup, scenario) index pairs a cell can hold
CellDraws(cfg) ==
    UNION {{<<k - 1, j - 1>> : j \in 1..Len(cfg.setups[k].scenarios)} : k \in 1..Len(cfg.setups)}

\* All returns zero; all positive; a win and a loss; a win, a flat and a loss.
AllFlat == <<Sc(<<"A">>, Half, 0), Sc(<<"B">>, Half, 0)>>
AllBull == <<Sc(<<"S">>, Half, 1), Sc(<<"B">>, Half, 5)>>
WinFlatLoss == <<Sc(<<"W">>, 4 * PUnit, 5), Sc(<<"F">>, 3 * PUnit, 0), Sc(<<"L">>, 3 * PUnit, -9)>>
AnalyticsSetupTuples ==
    LET St(p, scs, k) == Setup(<<"S">>, p, scs, k).obj[1]
    IN { <<St(One, AllFlat, None)>>, <<St(One, AllFlat, Some(4))>>,
         <<St(One, AllBull, None)>>, <<St(One, AllBull, Some(4))>>,
         <<St(One, WinLoss, None)>>, <<St(One, WinLoss, Some(4))>>,
         <<St(One, WinFlatLoss, None)>>,
         <<St(Half, AllFlat, None), St(Half, AllBull, Some(4))>> }
\* (paths, periods); two cells fewer for each further setup, whose cells
\* have that many more draws
AnalyticsShapes(setups) ==
    {sh \in (1..MaxPaths) \X (1..MaxPeriods) :
        sh[1] * sh[2] <= MaxPaths - 2 * (Len(setups) - 1)}
AnalyticsConfigs ==
    LET args == UNION {{<<st, sh>> : sh \in AnalyticsShapes(st)} : st \in AnalyticsSetupTuples}
        new(a) == SimulationConfig(a[1], a[2][1], a[2][2], 100, 1, None)
    IN {new(a).obj[1] : a \in {b \in args : new(b).exc = NoExc}}

InitAnalytics ==
    /\ CtorIdle
    /\ KellyIdle
    /\ AnalyticsIdle
    /\ ValidatorIdle
    /\ AppIdle
    /\ config \in AnalyticsConfigs
    /\ \E cells \in [1..N -> [1..T -> CellDraws(config)]] :
          /\ result = Some(RunOutput(config, cells))
          /\ setup_indices = result[1].setup_indices
          /\ scenario_indices = result[1].scenario_indices
          /\ period_returns = [i \in 1..N |-> [t \in 1..T |-> Some(result[1].period_returns[i][t])]]
    /\ kelly_fractions = [k \in 1..S |-> GetEffectiveKelly(config, config.setups[k])]
    /\ pc = "returned"
    /\ rng = 0
    /\ seed_stream = <<>>
    /\ setup_idx = S
    /\ first_result = None
NextAnalytics == ComputeAnalytics
SpecAnalytics == InitAnalytics /\ [][NextAnalytics]_vars

AnalyticsCalled == report # None
Rep == report[1]
KellyCalled == kelly_arg # None
KArg == kelly_arg[1]
KInfo == kelly_ret[1]
\* sum(p_i * r_i), numerator over One * RScale
SumPR(setup) ==
    SumSeq([i \in 1..Len(setup.scenarios) |->
                setup.scenarios[i].probability * setup.scenarios[i].return_pct])
\* sum(p_i * r_i^2), numerator over PParts * RScale^2
SumPRR(setup) ==
    SumSeq([i \in 1..Len(setup.scenarios) |->
                (setup.scenarios[i].probability \div PUnit) * setup.scenarios[i].return_pct ^ 2])
IsZeroGrowth(g) == \A i \in 1..Len(g.terms) : g.terms[i].p = 0 \/ g.terms[i].term = GScale

\* C10: compute_kelly_fraction returns a KellyInfo without raising, with
\* optimal_fraction >= 0; when sum(p_i * r_i) <= 0 the optimal fraction and
\* the expected log growth are exactly 0, and expected_return, variance
\* (= E[r^2] - E[r]^2), edge (= expected_return) and one odds line per
\* scenario are still filled in.
NoEdgeNoBet ==
    KellyCalled =>
        /\ kelly_exc = NoExc /\ kelly_ret # None
        /\ KInfo.optimal_fraction >= 0
        /\ SumPR(KArg) <= 0 =>
            /\ KInfo.optimal_fraction = 0
            /\ IsZeroGrowth(KInfo.expected_log_growth)
            /\ KInfo.expected_return * PUnit = SumPR(KArg)
            /\ KInfo.edge = KInfo.expected_return
            /\ KInfo.variance = PParts * (PParts * SumPRR(KArg) - KInfo.expected_return ^ 2)
            /\ Len(KInfo.odds_description) = Len(KArg.scenarios)
            /\ \A i \in 1..Len(KArg.scenarios) :
                  KInfo.odds_description[i].name = KArg.scenarios[i].name
\* The fair bet (expected return exactly 0, with a real win and a real loss)
\* was solved.
NoEdgeNoBetWitness ==
    /\ KellyCalled /\ kelly_ret # None
    /\ SumPR(KArg) = 0
    /\ \E i \in 1..Len(KArg.scenarios) :
          KArg.scenarios[i].probability > 0 /\ KArg.scenarios[i].return_pct < 0
    /\ KInfo.optimal_fraction = 0 /\ KInfo.variance > 0

\* The sign of G'(f) = sum_i p_i * r_i / (1 + f * r_i) at a feasible f: the
\* derivative times the product of all the (positive) terms 1 + f * r_j.
GrowthSlope(setup, f) ==
    LET n == Len(setup.scenarios)
        q == KellyProbs(setup)
        r == KellyReturns(setup)
    IN SumSeq([i \in 1..n |->
                  q[i] * r[i] * Prod([j \in 1..n |-> IF j = i THEN 1 ELSE GScale + f * r[j]])])
Feasible(setup, f) == f >= 0 /\ WithinFMax(f, FMax(Min(KellyReturns(setup))))
\* G is concave, so its maximum over [0, f_max] lies within tol of x exactly
\* when G does not fall before x - tol and does not rise after x + tol.
MaximizesGrowth(setup, x, tol) ==
    /\ Feasible(setup, x)
    /\ Feasible(setup, x - tol) => GrowthSlope(setup, x - tol) >= 0
    /\ Feasible(setup, x + tol) => GrowthSlope(setup, x + tol) <= 0
\* {p=0.6, r=+0.20; p=0.4, r=-0.10}, in either order
IsSixtyForty(setup) ==
    /\ Len(setup.scenarios) = 2
    /\ \E i, j \in 1..2 :
          /\ i # j
          /\ setup.scenarios[i].probability = 6 * PUnit /\ setup.scenarios[i].return_pct = 2
          /\ setup.scenarios[j].probability = 4 * PUnit /\ setup.scenarios[j].return_pct = -1

OptimalFractionFeasible ==
    (KellyCalled /\ kelly_ret # None) =>
        LET r == KellyReturns(KArg)
            x == KInfo.optimal_fraction
        IN /\ x >= 0
           /\ x <= FMaxDefault * KScale
           /\ \A i \in 1..Len(r) :
                 /\ r[i] < 0 => x * (-r[i]) < KScale * RScale
                 /\ GScale + x * r[i] > 0
\* The bound was binding, and set by a scenario of probability 0: the
\* fraction returned is the last step below 1 / |min return|.
OptimalFractionFeasibleWitness ==
    /\ KellyCalled /\ kelly_ret # None
    /\ KInfo.optimal_fraction > 0
    /\ \E i \in 1..Len(KArg.scenarios) :
          /\ KArg.scenarios[i].probability = 0
          /\ KArg.scenarios[i].return_pct < 0
          /\ \A j \in 1..Len(KArg.scenarios) :
                j # i => KArg.scenarios[j].return_pct > KArg.scenarios[i].return_pct
          /\ (KInfo.optimal_fraction + 1) * (-KArg.scenarios[i].return_pct) >= KScale * RScale

GrowthCalled == growth_arg # None
GArg == growth_arg[1]
\* C13: expected_log_growth_at(setup, fraction) never raises; it returns
\* negative infinity exactly when some scenario has
\* 1 + fraction * return_pct <= 0, whatever that scenario's probability, and
\* otherwise the finite sum of p_i * ln(1 + fraction * r_i); at fraction 0 it
\* returns 0.
GrowthAtTotal ==
    GrowthCalled =>
        LET sc == GArg.setup.scenarios
            ruined == \E i \in 1..Len(sc) : RScale * KScale + GArg.fraction * sc[i].return_pct <= 0
        IN /\ growth_exc = NoExc /\ growth_ret # None
           /\ growth_ret[1].inf <=> ruined
           /\ ~ruined =>
                /\ growth_ret[1].sign = 1
                /\ Len(growth_ret[1].terms) = Len(sc)
                /\ \A i \in 1..Len(sc) :
                      /\ growth_ret[1].terms[i].p * PUnit = sc[i].probability
                      /\ growth_ret[1].terms[i].term =
                             RScale * KScale + GArg.fraction * sc[i].return_pct
           /\ GArg.fraction = 0 => ~growth_ret[1].inf /\ IsZeroGrowth(growth_ret[1])
\* A fraction that ruins only a scenario of probability 0 was evaluated and
\* gave negative infinity.
GrowthAtTotalWitness ==
    /\ GrowthCalled /\ growth_ret # None /\ growth_ret[1].inf
    /\ \A i \in 1..Len(GArg.setup.scenarios) :
          GArg.setup.scenarios[i].probability > 0 =>
              RScale * KScale + GArg.fraction * GArg.setup.scenarios[i].return_pct > 0

BlendCalled == blend_arg # None
BArg == blend_arg[1]
\* optimal fractions compute_kelly_fraction may return for a setup
OptimalFractions(setup) ==
    {out.ret[1].optimal_fraction : out \in {o \in compute_kelly_fraction(setup) : o.exc = NoExc}}
PercentilesOrdered ==
    AnalyticsCalled =>
        LET tp == Rep.terminal_percentiles
        IN /\ DOMAIN tp = {1, 5, 10, 25, 50, 75, 90, 95, 99}
           /\ \A p, q \in DOMAIN tp : p <= q => RLeq(tp[p], tp[q])
           /\ RLeq(tp[25], Rep.terminal_median)
           /\ RLeq(Rep.terminal_median, tp[75])
\* Three paths with three different terminal values: every percentile is
\* an interpolation and all the inequalities are strict.
PercentilesOrderedWitness ==
    /\ AnalyticsCalled
    /\ \A p, q \in DOMAIN Rep.terminal_percentiles :
          p < q => RLt(Rep.terminal_percentiles[p], Rep.terminal_percentiles[q])
    /\ RLt(Rep.terminal_percentiles[25], Rep.terminal_median)
    /\ RLt(Rep.terminal_median, Rep.terminal_percentiles[75])

AllReturns == UNION {{config.setups[k].scenarios[j].return_pct :
                         j \in 1..Len(config.setups[k].scenarios)} : k \in 1..S}
\* initial_capital, as a numerator over GScale^(c-1)
InitialAt(c) == config.initial_capital * GScale ^ (c - 1)
\* C17: if every scenario of every setup has return_pct = 0 then, whatever
\* was drawn and whatever the Kelly fractions, every entry of
\* portfolio_values equals initial_capital, and the report has
\* probability_of_loss = 0, probability_of_ruin = 0, cagr_mean = 0 and
\* max_drawdown_mean = 0.
ZeroReturnsFlat ==
    (HasReturned /\ AllReturns = {0}) =>
        /\ \A i \in 1..N, c \in 1..(T + 1) : R.portfolio_values[i][c] = InitialAt(c)
        /\ AnalyticsCalled =>
              /\ Rep.probability_of_loss = RInt(0)
              /\ Rep.probability_of_ruin = RInt(0)
              /\ \A i \in 1..N : Rep.cagr_mean.mean_of[i].base = RInt(1)
              /\ Rep.max_drawdown_mean = RInt(0)
\* Two periods of zero returns under a Kelly fraction of 2.0, with both
\* scenarios drawn, were analysed.
ZeroReturnsFlatWitness ==
    /\ HasReturned /\ AnalyticsCalled /\ AllReturns = {0}
    /\ T = 2 /\ N >= 2
    /\ \E k \in 1..S : config.setups[k].kelly_fraction = Some(4)
    /\ \E i, j \in 1..N : R.scenario_indices[i][1] # R.scenario_indices[j][2]

\* C18: if every scenario of every setup has return_pct > 0 then, whatever
\* was drawn and for every Kelly fraction > 0, every path's terminal value is
\* strictly greater than initial_capital and the report has
\* probability_of_loss = 0.
PositiveReturnsGain ==
    (HasReturned /\ \A r \in AllReturns : r > 0) =>
        /\ \A i \in 1..N : R.portfolio_values[i][T + 1] > InitialAt(T + 1)
        /\ AnalyticsCalled => Rep.probability_of_loss = RInt(0)
\* Paths with different gains over two periods were analysed.
PositiveReturnsGainWitness ==
    /\ HasReturned /\ AnalyticsCalled
    /\ \A r \in AllReturns : r > 0
    /\ T = 2 /\ N >= 2
    /\ \E i, j \in 1..N : R.portfolio_values[i][T + 1] < R.portfolio_values[j][T + 1]

(***************************************************************************)
(* validators.py.  An error string is kept as its fixed text, the values  *)
(* formatted into it, and the names of the objects it was prefixed with.  *)
(***************************************************************************)
Err(text, args) == [path |-> <<>>, text |-> text, args |-> args]
\* f"[{name}] {e}" for each e of a nested list
Prefixed(name, errors) ==
    [i \in 1..Len(errors) |-> [errors[i] EXCEPT !.path = <<name>> \o @]]
\* the error, when the condition holds
When(cond, err) == IF cond THEN <<err>> ELSE <<>>
\* {x:.4f} of a probability sum
Format4f(x) == RoundHalfEven(x, One \div 10 ^ 4)

\* np.isclose(a, b, atol=1e-4), rtol left at its default
ValidatorAtolInv == 10000
BadValidatorIsClose(a, b) == Abs(a - b) <= 0
ValidatorIsClose(a, b) == Abs(a - b) <= (One \div ValidatorAtolInv) + (Abs(b) \div RtolInv)

\* validators.py:10-19
validate_scenario(scenario) ==
    When(~(0 <= scenario.probability /\ scenario.probability <= One),
         Err("Probability {} not in [0, 1]", <<scenario.probability>>))
    \o When(scenario.return_pct <= -RScale,
            Err("Return {} would cause total loss (must be > -100%)", <<scenario.return_pct>>))
    \o When(Strip(scenario.name) = <<>>, Err("Scenario name cannot be empty", <<>>))

RECURSIVE NestedErrors(_, _, _)
NestedErrors(objs, k, errors) ==
    IF k > Len(objs) THEN <<>>
    ELSE Prefixed(objs[k].name, errors[k]) \o NestedErrors(objs, k + 1, errors)

\* validators.py:22-42
validate_setup(setup) ==
    LET total_prob == SumSeq([i \in 1..Len(setup.scenarios) |-> setup.scenarios[i].probability])
    IN When(Strip(setup.name) = <<>>, Err("Setup name cannot be empty", <<>>))
       \o When(Len(setup.scenarios) < 2, Err("Setup must have at least 2 scenarios", <<>>))
       \o When(~ValidatorIsClose(total_prob, One),
               Err("Scenario probabilities sum to {:.4f}, must equal 1.0", <<Format4f(total_prob)>>))
       \o NestedErrors(setup.scenarios, 1,
                       [i \in 1..Len(setup.scenarios) |-> validate_scenario(setup.scenarios[i])])
       \o When(setup.kelly_fraction # None /\ setup.kelly_fraction[1] <= 0,
               Err("Per-setup kelly_fraction must be positive, got {}", <<setup.kelly_fraction[1]>>))

MaxSimulations == 1000000
\* validators.py:45-73
validate_config(cfg) ==
    LET total_setup_prob == SumSeq([i \in 1..Len(cfg.setups) |-> cfg.setups[i].probability])
    IN When(cfg.num_simulations < 1, Err("Number of simulations must be >= 1", <<>>))
       \o When(cfg.num_simulations > MaxSimulations,
               Err("Number of simulations exceeds 1,000,000 limit", <<>>))
       \o When(cfg.num_periods < 1, Err("Number of periods must be >= 1", <<>>))
       \o When(cfg.initial_capital <= 0, Err("Initial capital must be positive", <<>>))
       \o When(cfg.default_kelly_fraction <= 0,
               Err("default_kelly_fraction must be positive, got {}", <<cfg.default_kelly_fraction>>))
       \o When(Len(cfg.setups) = 0, Err("At least one setup is required", <<>>))
       \o When(~ValidatorIsClose(total_setup_prob, One),
               Err("Setup probabilities sum to {:.4f}, must equal 1.0", <<Format4f(total_setup_prob)>>))
       \o NestedErrors(cfg.setups, 1,
                       [i \in 1..Len(cfg.setups) |-> validate_setup(cfg.setups[i])])

(***************************************************************************)
(* The objects handed to the validators: assembled field by field, as     *)
(* Scenario.__new__ and object.__setattr__ do, so that they hold what the *)
(* constructors accept and what they reject.                              *)
(***************************************************************************)
RawScenario(name, probability, return_pct) ==
    [name |-> name, probability |-> probability, return_pct |-> return_pct]
RawSetup(name, probability, scenarios, kelly_fraction) ==
    [name |-> name, probability |-> probability,
     scenarios |-> scenarios, kelly_fraction |-> kelly_fraction]
\* probabilities of nested scenarios and of setups: sums of two hit 1.0, miss
\* it by 6e-6, by 1.05e-4 and by 1.2e-4
ValidatorSumArgs == {Half, Half + 60, Half + 1050, Half + 1200}
NestedScenarios ==
    {RawScenario(<<"W">>, p, 5) : p \in ValidatorSumArgs}
        \cup {RawScenario(<<" ">>, Half, 5), RawScenario(<<"W">>, Half, -RScale)}
NestedSetups ==
    LET good == <<RawScenario(<<"W">>, Half, 5), RawScenario(<<"L">>, Half, -9)>>
    IN {RawSetup(<<"S">>, p, good, None) : p \in ValidatorSumArgs \cup {-Half, 0, One, One + Half}}
          \cup {RawSetup(<<" ">>, Half, good, None), RawSetup(<<"S">>, Half, good, Some(0)),
                RawSetup(<<"S">>, Half, <<good[1]>>, None)}

ValidatorCalled(fn, arg, errors) ==
    /\ val_call' = [fn |-> fn, arg |-> arg]
    /\ val_exc' = NoExc
    /\ val_ret' = Some(errors)
    /\ UNCHANGED <<ctor_vars, engine_vars, kelly_vars, analytics_vars, app_vars>>
ValidateScenario ==
    /\ val_call.fn = "none"
    /\ \E name \in NameArgs, probability \in ProbArgs \cup SumProbArgs, return_pct \in ReturnArgs :
          LET scenario == RawScenario(name, probability, return_pct)
          IN ValidatorCalled("validate_scenario", scenario, validate_scenario(scenario))
ValidateSetup ==
    /\ val_call.fn = "none"
    /\ \E name \in {<<" ">>, <<"S">>}, probability \in {0, Half, One + Half},
          scenarios \in TupleSet(NestedScenarios, 0, MaxScenarios),
          kelly_fraction \in {None, Some(0), Some(1)} :
          LET setup == RawSetup(name, probability, scenarios, kelly_fraction)
          IN ValidatorCalled("validate_setup", setup, validate_setup(setup))
ValidateConfig ==
    /\ val_call.fn = "none"
    /\ \E setups \in TupleSet(NestedSetups, 0, MaxSetups),
          num_simulations \in {0, 1, MaxSimulations, MaxSimulations + 1},
          num_periods \in {0, 1}, initial_capital \in {0, 100},
          default_kelly_fraction \in {0, 1} :
          LET cfg == [setups |-> setups, num_simulations |-> num_simulations,
                      num_periods |-> num_periods, initial_capital |-> initial_capital,
                      default_kelly_fraction |-> default_kelly_fraction, seed |-> None]
          IN ValidatorCalled("validate_config", cfg, validate_config(cfg))

InitValidators == CtorIdle /\ EngineIdle /\ KellyIdle /\ AnalyticsIdle /\ ValidatorIdle /\ AppIdle
NextValidators == ValidateScenario \/ ValidateSetup \/ ValidateConfig
SpecValidators == InitValidators /\ [][NextValidators]_vars

VArg == val_call.arg
Errors == val_ret[1]
\* the defects of the list, read off the fields
OffByMoreThan1e4(probabilities) == Abs(SumSeq(probabilities) - One) > One \div 10 ^ 4
ListedScenarioDefect(sc) ==
    \/ sc.probability < 0 \/ sc.probability > One
    \/ sc.return_pct <= -RScale
    \/ Blank(sc.name)
ListedSetupDefect(st) ==
    \/ OffByMoreThan1e4(Probabilities(st.scenarios))
    \/ st.probability < 0 \/ st.probability > One
    \/ Blank(st.name)
    \/ Len(st.scenarios) < 2
    \/ st.kelly_fraction # None /\ st.kelly_fraction[1] <= 0
    \/ \E i \in 1..Len(st.scenarios) : ListedScenarioDefect(st.scenarios[i])
ListedConfigDefect(cfg) ==
    \/ OffByMoreThan1e4(Probabilities(cfg.setups))
    \/ cfg.num_simulations < 1 \/ cfg.num_simulations > 1000000
    \/ cfg.num_periods <= 0 \/ cfg.initial_capital <= 0 \/ cfg.default_kelly_fraction <= 0
    \/ Len(cfg.setups) = 0
    \/ \E i \in 1..Len(cfg.setups) : ListedSetupDefect(cfg.setups[i])
\* C19: validate_config never raises, and returns a non-empty list of errors
\* whenever the config or a nested setup or scenario has a probability sum
\* off by more than 1e-4, a scenario or setup probability out of range, a
\* return <= -100%, a blank name, fewer than 2 scenarios, a Kelly override
\* <= 0, num_simulations outside [1, 1000000], num_periods, initial_capital
\* or default_kelly_fraction <= 0, or no setup.
ValidatorFlagsDefects ==
    val_call.fn = "validate_config" =>
        /\ val_exc = NoExc /\ val_ret # None
        /\ ListedConfigDefect(VArg) => Errors # <<>>

Constructed(fn, obj) ==
    CASE fn = "validate_scenario" -> ScenarioPostInit(obj) = NoExc
      [] fn = "validate_setup" ->
            /\ \A i \in 1..Len(obj.scenarios) : ScenarioPostInit(obj.scenarios[i]) = NoExc
            /\ SetupPostInit(obj) = NoExc
      [] fn = "validate_config" ->
            /\ \A i \in 1..Len(obj.setups) :
                  /\ \A j \in 1..Len(obj.setups[i].scenarios) :
                        ScenarioPostInit(obj.setups[i].scenarios[j]) = NoExc
                  /\ SetupPostInit(obj.setups[i]) = NoExc
            /\ SimulationConfigPostInit(obj) = NoExc
      [] OTHER -> FALSE
\* C20: an object the constructors accept (nested objects included) gets an
\* empty error list from its validator; for a config, provided
\* num_simulations is at most 1,000,000.
ConstructedPassesValidators ==
    /\ val_call.fn \in {"validate_scenario", "validate_setup"} /\ Constructed(val_call.fn, VArg)
          => val_exc = NoExc /\ val_ret = Some(<<>>)
    /\ val_call.fn = "validate_config" /\ Constructed(val_call.fn, VArg)
          /\ VArg.num_simulations <= 1000000
          => val_exc = NoExc /\ val_ret = Some(<<>>)
\* a constructed config of two setups whose probabilities miss 1.0 by 6e-6
\* has been validated
ConstructedPassesValidatorsWitness ==
    /\ val_call.fn = "validate_config" /\ Constructed(val_call.fn, VArg)
    /\ VArg.num_simulations = 1000000
    /\ Len(VArg.setups) = 2
    /\ SumSeq(Probabilities(VArg.setups)) = One + 60
    /\ val_ret = Some(<<>>)

\* the raw returns of all cells of the result, and whether they are all equal
RawReturns == Flatten([i \in 1..N |-> [t \in 1..T |-> Rat(R.period_returns[i][t], RScale)]])
AllRawEqual == \A a, b \in 1..Len(RawReturns) : RawReturns[a] = RawReturns[b]
MasksPartitionCells ==
    /\ pc \in {"sample_scenarios", "returned"} =>
        /\ \A a, b \in 0..(S - 1) : a # b => Mask(a) \cap Mask(b) = {}
        /\ UNION {Mask(a) : a \in 0..(S - 1)} = 1..(N * T)
        /\ \A x \in Cells :
              LET s == setup_indices[x[1]][x[2]]
                  k == scenario_indices[x[1]][x[2]]
                  r == period_returns[x[1]][x[2]]
              IN /\ (k # Empty) = (s < setup_idx)
                 /\ (r # Empty) = (s < setup_idx)
                 /\ r # Empty => r[1] = config.setups[s + 1].scenarios[k[1] + 1].return_pct
    /\ HasReturned =>
        \A x \in Cells :
            LET s == R.setup_indices[x[1]][x[2]]
                k == R.scenario_indices[x[1]][x[2]]
            IN /\ k # Empty
               /\ R.period_returns[x[1]][x[2]] =
                      config.setups[s + 1].scenarios[k[1] + 1].return_pct
\* a run of two setups returned with cells of both, under a Kelly fraction
\* other than 1, and some cell holding a non-zero return
MasksPartitionCellsWitness ==
    /\ HasReturned /\ S = 2
    /\ Mask(0) # {} /\ Mask(1) # {}
    /\ \E s \in 1..S : kelly_fractions[s] # KScale
    /\ \E x \in Cells : R.period_returns[x[1]][x[2]] # 0

\* the cells drawn for a setup of index below k
CellsBelow(k) == UNION {Mask(a) : a \in 0..(k - 1)}
\* C23: one generator, consumed in a fixed order: the first N*T uniforms go
\* to the setup draw, cell by cell; then, for setup indices in increasing
\* order, as many uniforms as the setup has cells (none for a setup without
\* cells); 2*N*T uniforms in all.  For a seeded generator, whose stream is
\* observable, each cell's setup and scenario are the samples of the
\* uniforms at exactly those positions.
DrawOrderFixed ==
    /\ pc = "sample_setups" => rng = 0
    /\ pc = "sample_scenarios" => rng = N * T + Cardinality(CellsBelow(setup_idx))
    /\ HasReturned => rng = 2 * N * T
    /\ (pc \in {"sample_scenarios", "returned"} /\ SeededGenerator(config)) =>
        /\ Len(seed_stream) >= rng
        /\ \A x \in Cells :
              LET c == Flat(x[1], x[2])
                  s == setup_indices[x[1]][x[2]]
                  k == scenario_indices[x[1]][x[2]]
                  pos == N * T + Cardinality(CellsBelow(s)) + Rank(Mask(s), c)
              IN /\ s = SampleCategorical(setup_probs, <<seed_stream[c]>>)[1]
                 /\ k # Empty =>
                       k[1] = SampleCategorical(scenario_probs(s + 1), <<seed_stream[pos]>>)[1]
\* a seeded run of two setups returned, the first setup without any cell and
\* the second with several, whose uniforms are not all the same
DrawOrderFixedWitness ==
    /\ HasReturned /\ SeededGenerator(config) /\ S = 2
    /\ Mask(0) = {} /\ Cardinality(Mask(1)) >= 2
    /\ rng = 2 * N * T
    /\ \E a, b \in (N * T + 1)..(2 * N * T) : seed_stream[a] # seed_stream[b]

\* the longest unbroken run of TRUE in a row, by a plain scan from the left:
\* cur is the run ending just before column k, best the longest seen
RECURSIVE LinearScan(_, _, _, _)
LinearScan(row, k, cur, best) ==
    IF k > Len(row) THEN best
    ELSE LET run == IF row[k] THEN cur + 1 ELSE 0
         IN LinearScan(row, k + 1, run, IF run > best THEN run ELSE best)
\* C24: for every boolean matrix with rows of length >= 1,
\* _max_consecutive_true returns one entry per row, the length of the row's
\* longest unbroken run of TRUE as a linear scan computes it: 0 for an
\* all-FALSE row, the row length for an all-TRUE row, the full length for
\* runs that start at the first column or end at the last.
LongestRunIsLinearScan ==
    run_ret # None =>
        LET arr == run_arg[1]
            res == run_ret[1]
        IN /\ Len(res) = Len(arr)
           /\ \A i \in 1..Len(arr) :
                 /\ res[i] = LinearScan(arr[i], 1, 0, 0)
                 /\ (\A k \in 1..Len(arr[i]) : ~arr[i][k]) => res[i] = 0
                 /\ (\A k \in 1..Len(arr[i]) : arr[i][k]) => res[i] = Len(arr[i])
\* the row [T,T,F,T,T,T] gave 3
LongestRunIsLinearScanWitness ==
    /\ run_arg = Some(<<<<TRUE, TRUE, FALSE, TRUE, TRUE, TRUE>>>>)
    /\ run_ret = Some(<<3>>)

\* portfolio value of path i at column c, and its drawdown from the highest
\* value of the path up to that column
ValueAt(i, c) == Rat(R.portfolio_values[i][c], GScale ^ (c - 1))
PeakAt(i, c) == CHOOSE p \in {ValueAt(i, b) : b \in 1..c} : \A b \in 1..c : RLeq(ValueAt(i, b), p)
DrawdownAt(i, c) == RDiv(RSub(ValueAt(i, c), PeakAt(i, c)), PeakAt(i, c))
DrawdownRow(i) == [c \in 1..(T + 1) |-> InDrawdown(DrawdownAt(i, c))]
\* C26: column 0 of a path is never in drawdown, so the longest drawdown run
\* of a path is at most num_periods and max_drawdown_duration_mean, the mean
\* of these runs, lies in [0, num_periods]; it is 0 exactly when no cell of
\* any path has a drawdown below -1e-10.
DrawdownDurationBounded ==
    AnalyticsCalled =>
        /\ \A i \in 1..N :
              /\ ~DrawdownRow(i)[1]
              /\ LinearScan(DrawdownRow(i), 1, 0, 0) <= T
        /\ Rep.max_drawdown_duration_mean =
              RMean([i \in 1..N |-> RInt(LinearScan(DrawdownRow(i), 1, 0, 0))])
        /\ RLeq(RInt(0), Rep.max_drawdown_duration_mean)
        /\ RLeq(Rep.max_drawdown_duration_mean, RInt(T))
        /\ (Rep.max_drawdown_duration_mean = RInt(0))
              = (\A i \in 1..N, c \in 1..(T + 1) : ~DrawdownRow(i)[c])
\* one path below its start throughout, another never: the mean duration is
\* strictly between 0 and num_periods
DrawdownDurationBoundedWitness ==
    /\ AnalyticsCalled /\ T = 2
    /\ \E i \in 1..N : LinearScan(DrawdownRow(i), 1, 0, 0) = T
    /\ \E i \in 1..N : LinearScan(DrawdownRow(i), 1, 0, 0) = 0
    /\ RLt(RInt(0), Rep.max_drawdown_duration_mean)
    /\ RLt(Rep.max_drawdown_duration_mean, RInt(T))

\* the paths that end below initial_capital, and below a tenth of it
LossPaths == {i \in 1..N : RLt(ValueAt(i, T + 1), RInt(config.initial_capital))}
RuinPaths == {i \in 1..N : RLt(ValueAt(i, T + 1), Rat(config.initial_capital, 10))}
\* C27: 0 <= probability_of_ruin <= probability_of_loss <= 1, these being
\* the shares of paths ending below 10% of initial_capital and below
\* initial_capital: every path counted as ruined is counted as a loss.
RuinWithinLoss ==
    AnalyticsCalled =>
        /\ Rep.probability_of_ruin = Rat(Cardinality(RuinPaths), N)
        /\ Rep.probability_of_loss = Rat(Cardinality(LossPaths), N)
        /\ RuinPaths \subseteq LossPaths
        /\ RLeq(RInt(0), Rep.probability_of_ruin)
        /\ RLeq(Rep.probability_of_ruin, Rep.probability_of_loss)
        /\ RLeq(Rep.probability_of_loss, RInt(1))
\* some path is ruined and some path lost without being ruined
RuinWithinLossWitness ==
    /\ AnalyticsCalled
    /\ RuinPaths # {} /\ LossPaths \ RuinPaths # {}
    /\ RLt(RInt(0), Rep.probability_of_ruin)
    /\ RLt(Rep.probability_of_ruin, Rep.probability_of_loss)

\* terminal - initial_capital, per path
TerminalPnL == [i \in 1..N |-> RSub(ValueAt(i, T + 1), RInt(config.initial_capital))]
\* C28: the CVaR tail is never empty: the lowest terminal P&L is at most
\* var_95, so cvar_mask selects at least one of the N >= 1 paths and cvar_95
\* is the mean of the selected paths, never the fallback var_95 of an empty
\* selection.
CVaRTailNonEmpty ==
    AnalyticsCalled =>
        LET cvar_mask == CVaRMask(TerminalPnL, Rep.var_95)
        IN /\ N >= 1
           /\ RLeq(RMin(TerminalPnL), Rep.var_95)
           /\ \E i \in 1..N : cvar_mask[i]
           /\ Rep.cvar_95 = RMean(Masked(TerminalPnL, cvar_mask))
\* the lowest P&L is shared by several paths and is exactly var_95: the tail
\* holds only paths equal to the percentile
CVaRTailNonEmptyWitness ==
    /\ AnalyticsCalled /\ N >= 3
    /\ RMin(TerminalPnL) = Rep.var_95
    /\ \E i \in 1..N : RLt(Rep.var_95, TerminalPnL[i])
    /\ Rep.cvar_95 = Rep.var_95

(***************************************************************************)
(* The Streamlit pages (app/).  One action is one script run of a page:   *)
(* the run a click triggers, followed through st.rerun() to the render    *)
(* that ends it.  The dicts of session_state["setups"] keep probabilities *)
(* in 1/One and return_pct in 1/PctScale.                                 *)
(***************************************************************************)
PctScale == 100
Pct == One \div 100
\* "key" in st.session_state, st.session_state[key] = value
HasKey(ss, key) == key \in DOMAIN ss
SetKey(ss, key, value) == [k \in DOMAIN ss \cup {key} |-> IF k = key THEN value ELSE ss[k]]

\* str(n) of a non-negative integer
DigitChars == <<"0", "1", "2", "3", "4", "5", "6", "7", "8", "9">>
RECURSIVE Str(_)
Str(n) == IF n < 10 THEN <<DigitChars[n + 1]>> ELSE Str(n \div 10) \o <<DigitChars[(n % 10) + 1]>>

ScenarioDict(name, probability, return_pct) ==
    [name |-> name, probability |-> probability, return_pct |-> return_pct]
SetupDict(name, probability, kelly_fraction, scenarios) ==
    [name |-> name, probability |-> probability,
     kelly_fraction |-> kelly_fraction, scenarios |-> scenarios]
WinName == <<"W", "i", "n">>
LossName == <<"L", "o", "s", "s">>
StressName == <<"S", "t", "r", "e", "s", "s">>
SetupWord == <<"S", "e", "t", "u", "p", " ">>
ScenarioWord == <<"S", "c", "e", "n", "a", "r", "i", "o", " ">>
\* state.py:10-31
DEFAULT_SETUPS ==
    << SetupDict(SetupWord \o <<"A">>, 50 * Pct, None,
                 << ScenarioDict(WinName, 60 * Pct, 20),
                    ScenarioDict(LossName, 30 * Pct, -10),
                    ScenarioDict(StressName, 10 * Pct, -50) >>),
       SetupDict(SetupWord \o <<"B">>, 50 * Pct, None,
                 << ScenarioDict(WinName, 40 * Pct, 15),
                    ScenarioDict(LossName, 45 * Pct, -8),
                    ScenarioDict(StressName, 15 * Pct, -40) >>) >>

\* state.py:34-45: each key is set only if the session does not hold it
init_session_state(ss) ==
    LET s1 == IF HasKey(ss, "setups") THEN ss ELSE SetKey(ss, "setups", DEFAULT_SETUPS)
        s2 == IF HasKey(s1, "sim_result") THEN s1 ELSE SetKey(s1, "sim_result", None)
    IN IF HasKey(s2, "analytics_report") THEN s2 ELSE SetKey(s2, "analytics_report", None)

\* 1_Setup_Config.py:19-29: the dict "+ Add Setup" appends
AddedSetup(setups) ==
    SetupDict(SetupWord \o Str(Len(setups) + 1), 0, None,
              << ScenarioDict(WinName, 50 * Pct, 10),
                 ScenarioDict(LossName, 40 * Pct, -10),
                 ScenarioDict(StressName, 10 * Pct, -30) >>)
\* setup_form.py:89-92: the dict "+ Scenario" appends
AddedScenario(scenarios) == ScenarioDict(ScenarioWord \o Str(Len(scenarios) + 1), 0, 0)

\* st.number_input raises StreamlitAPIException when the value it is given
\* lies outside [min_value, max_value]; the script run ends there.
NumberInputRaises(value, min_value, max_value) == value < min_value \/ value > max_value
\* setup_form.py:16-83: the widgets of one form, above its buttons
FormRaises(setup_data) ==
    \/ NumberInputRaises(setup_data.probability, Pct, One)
    \/ setup_data.kelly_fraction # None
          /\ NumberInputRaises(setup_data.kelly_fraction[1] * 100, KScale, 5 * 100 * KScale)
    \/ \E k \in 1..Len(setup_data.scenarios) :
          \/ NumberInputRaises(setup_data.scenarios[k].probability, 0, One)
          \/ NumberInputRaises(setup_data.scenarios[k].return_pct, -99, 1000)
\* 1_Setup_Config.py:42-44: the forms whose buttons the render reaches
FormsReached(setups) == {i \in 1..Len(setups) : \A j \in 1..i : ~FormRaises(setups[j])}
\* how a render of the setup page over the given list ends
SetupPageOut(setups) ==
    IF FormsReached(setups) = 1..Len(setups) THEN "setup_page" ELSE "setup_page_exception"
SetupPageShown == page_out \in {"setup_page", "setup_page_exception"}
Setups == session_state["setups"]
\* the script run a click ends in: the list is stored and, after
\* st.rerun(), the page is rendered over it
StoreSetups(setups) ==
    /\ session_state' = SetKey(session_state, "setups", setups)
    /\ page_out' = SetupPageOut(setups)
    /\ UNCHANGED <<ctor_vars, engine_vars, kelly_vars, analytics_vars, validator_vars>>

MaxPageSetups == 4
MaxPageScenarios == 4
\* 1_Setup_Config.py:9-53 with no button clicked
OpenSetupPage ==
    /\ session_state' = init_session_state(session_state)
    /\ page_out' = SetupPageOut(init_session_state(session_state)["setups"])
    /\ UNCHANGED <<ctor_vars, engine_vars, kelly_vars, analytics_vars, validator_vars>>
\* 1_Setup_Config.py:18-30
AddSetup ==
    /\ SetupPageShown
    /\ Len(Setups) < MaxPageSetups
    /\ StoreSetups(Append(Setups, AddedSetup(Setups)))
\* 1_Setup_Config.py:33-39
LoadExample ==
    /\ SetupPageShown
    /\ StoreSetups(DEFAULT_SETUPS)
\* setup_form.py:88-93
AddScenario ==
    /\ SetupPageShown
    /\ \E index \in FormsReached(Setups) :
          /\ Len(Setups[index].scenarios) < MaxPageScenarios
          /\ StoreSetups([Setups EXCEPT ![index].scenarios = Append(@, AddedScenario(@))])
\* setup_form.py:95-98: the button exists only above two scenarios
BadRemoveScenarioOffered(setup_data) == Len(setup_data.scenarios) > 1
RemoveScenarioOffered(setup_data) == Len(setup_data.scenarios) > 2
RemoveScenario ==
    /\ SetupPageShown
    /\ \E index \in FormsReached(Setups) :
          /\ RemoveScenarioOffered(Setups[index])
          /\ StoreSetups([Setups EXCEPT ![index].scenarios = SubSeq(@, 1, Len(@) - 1)])
\* setup_form.py:129-132: the button exists only above one setup; pop(index)
RemoveSetupOffered(setups) == Len(setups) > 1
RemoveSetup ==
    /\ SetupPageShown
    /\ \E index \in FormsReached(Setups) :
          /\ RemoveSetupOffered(Setups)
          /\ StoreSetups(SubSeq(Setups, 1, index - 1) \o SubSeq(Setups, index + 1, Len(Setups)))

InitSetupPage == CtorIdle /\ EngineIdle /\ KellyIdle /\ AnalyticsIdle /\ ValidatorIdle /\ AppIdle
NextSetupPage ==
    OpenSetupPage \/ AddSetup \/ LoadExample \/ AddScenario \/ RemoveScenario \/ RemoveSetup
SpecSetupPage == InitSetupPage /\ [][NextSetupPage]_vars

\* C30: after any sequence of '+ Add Setup', 'Load Example', '+ Scenario',
\* '- Scenario' and 'Remove Setup', session_state["setups"] holds at least
\* one setup and every setup holds at least two scenarios.
SetupListMinimums ==
    HasKey(session_state, "setups") =>
        /\ Len(Setups) >= 1
        /\ \A i \in 1..Len(Setups) : Len(Setups[i].scenarios) >= 2
\* removals have brought the list down to one setup of two scenarios
SetupListMinimumsWitness ==
    /\ HasKey(session_state, "setups")
    /\ Len(Setups) = 1
    /\ Len(Setups[1].scenarios) = 2
    /\ ~RemoveSetupOffered(Setups) /\ ~RemoveScenarioOffered(Setups[1])

(***************************************************************************)
(* pages/2_Simulation.py                                                   *)
(***************************************************************************)
\* a session dict's return_pct, in the 1/RScale of the Scenario objects; the
\* page is run on lists whose returns are whole tenths
ReturnOf(return_pct) == return_pct \div (PctScale \div RScale)
\* state.py:58-65: the Scenario objects of one setup dict, in order, up to
\* the first constructor that raises
RECURSIVE ScenariosFromState(_, _, _)
ScenariosFromState(dicts, k, built) ==
    IF k > Len(dicts) THEN [exc |-> NoExc, obj |-> Some(built)]
    ELSE LET sc == Scenario(dicts[k].name, dicts[k].probability, ReturnOf(dicts[k].return_pct))
         IN IF sc.exc # NoExc THEN [exc |-> sc.exc, obj |-> None]
            ELSE ScenariosFromState(dicts, k + 1, Append(built, sc.obj[1]))
\* state.py:56-73
RECURSIVE SetupsFromState(_, _, _)
SetupsFromState(dicts, k, built) ==
    IF k > Len(dicts) THEN [exc |-> NoExc, obj |-> Some(built)]
    ELSE LET scenarios == ScenariosFromState(dicts[k].scenarios, 1, <<>>)
             setup == Setup(dicts[k].name, dicts[k].probability, scenarios.obj[1],
                            dicts[k].kelly_fraction)
         IN IF scenarios.exc # NoExc THEN [exc |-> scenarios.exc, obj |-> None]
            ELSE IF setup.exc # NoExc THEN [exc |-> setup.exc, obj |-> None]
            ELSE SetupsFromState(dicts, k + 1, Append(built, setup.obj[1]))
\* state.py:48-82
build_config_from_state(ss, num_sims, num_periods, initial_capital, default_kelly_fraction, seed) ==
    LET setups == SetupsFromState(ss["setups"], 1, <<>>)
    IN IF setups.exc # NoExc THEN [exc |-> setups.exc, obj |-> None]
       ELSE SimulationConfig(setups.obj[1], num_sims, num_periods, initial_capital,
                             default_kelly_fraction, seed)

\* 2_Simulation.py:75-76
BadStoreRun(ss, run_result, run_report) == SetKey(ss, "analytics_report", Some(run_report))
StoreRun(ss, run_result, run_report) ==
    SetKey(SetKey(ss, "sim_result", Some(run_result)), "analytics_report", Some(run_report))
\* 2_Simulation.py:78-84: what the page shows below the sidebar
Display(ss) ==
    IF ss["sim_result"] = None \/ ss["analytics_report"] = None THEN "info" ELSE "results"
\* 2_Simulation.py:53-84 once the button was clicked: the session and the
\* way the run ends, for each draw of the engine
RunOutcomes(ss, cfg) ==
    LET errors == validate_config(cfg.obj[1])
        ran(cells) ==
            LET run_result == RunOutput(cfg.obj[1], cells)
            IN {IF out.exc # NoExc
                THEN [ss |-> ss, out |-> "exception"]
                ELSE [ss |-> StoreRun(ss, run_result, out.ret[1]),
                      out |-> Display(StoreRun(ss, run_result, out.ret[1]))] :
                   out \in compute_analytics(run_result)}
    IN IF cfg.exc # NoExc
       THEN {[ss |-> ss, out |-> IF cfg.exc.type = "ValueError" THEN "config_error" ELSE "exception"]}
       ELSE IF errors # <<>>
       THEN {[ss |-> ss, out |-> "validation_errors"]}
       ELSE UNION {ran(cells) :
                cells \in [1..cfg.obj[1].num_simulations ->
                              [1..cfg.obj[1].num_periods -> CellDraws(cfg.obj[1])]]}

\* The lists the setup page has left in the session: a win and a loss with
\* and without a Kelly override of 2.0; Setup A alone after 'Remove Setup'
\* (probability 0.5, so that the config's sum is 0.5); a list ending in a
\* freshly added setup (probability 0.0); scenarios summing to 0.9.
SimulationPageSetups ==
    LET win_loss == << ScenarioDict(WinName, 50 * Pct, 50), ScenarioDict(LossName, 50 * Pct, -90) >>
        one == SetupDict(SetupWord \o <<"1">>, One, None, win_loss)
    IN { <<one>>,
         <<[one EXCEPT !.kelly_fraction = Some(4)]>>,
         <<DEFAULT_SETUPS[1]>>,
         <<one, AddedSetup(<<one>>)>>,
         <<[one EXCEPT !.scenarios[2].probability = 40 * Pct]>> }
\* the sidebar's number of simulations and of periods, scaled down to what
\* the engine model can enumerate
MaxPagePaths == 2
PageShapes == {sh \in (1..MaxPagePaths) \X (1..MaxPagePaths) : sh[1] * sh[2] <= MaxPagePaths}
SimulationPageShown == page_out \in {"info", "results", "config_error", "validation_errors", "exception"}

\* 1_Setup_Config.py and setup_form.py: the user leaves another list
EditSetups ==
    /\ \E setups \in SimulationPageSetups :
          /\ setups # session_state["setups"]
          /\ session_state' = SetKey(session_state, "setups", setups)
          /\ page_out' = SetupPageOut(setups)
    /\ UNCHANGED <<ctor_vars, engine_vars, kelly_vars, analytics_vars, validator_vars>>
\* 2_Simulation.py:12-124 with run_button False
OpenSimulationPage ==
    /\ session_state' = init_session_state(session_state)
    /\ page_out' = Display(init_session_state(session_state))
    /\ UNCHANGED <<ctor_vars, engine_vars, kelly_vars, analytics_vars, validator_vars>>
\* 2_Simulation.py:12-124 with run_button True
RunClick ==
    /\ SimulationPageShown
    /\ \E sh \in PageShapes, default_kelly \in {1}, seed \in {Some(42)} :
          LET ss == init_session_state(session_state)
              cfg == build_config_from_state(ss, sh[1], sh[2], 100, default_kelly, seed)
          IN \E o \in RunOutcomes(ss, cfg) :
                /\ session_state' = o.ss
                /\ page_out' = o.out
    /\ UNCHANGED <<ctor_vars, engine_vars, kelly_vars, analytics_vars, validator_vars>>

InitSimulationPage ==
    /\ CtorIdle /\ EngineIdle /\ KellyIdle /\ AnalyticsIdle /\ ValidatorIdle
    /\ \E setups \in SimulationPageSetups :
          /\ session_state = SetKey(init_session_state(<<>>), "setups", setups)
          /\ page_out = SetupPageOut(setups)
NextSimulationPage == EditSetups \/ OpenSimulationPage \/ RunClick
SpecSimulationPage == InitSimulationPage /\ [][NextSimulationPage]_vars

\* st.session_state.get(key)
Entry(ss, key) == IF HasKey(ss, key) THEN ss[key] ELSE None
\* the two entries are both None, or a result and a report computed from it
ResultAndReportPaired ==
    LET res == Entry(session_state, "sim_result")
        rep == Entry(session_state, "analytics_report")
    IN \/ res = None /\ rep = None
       \/ /\ res # None /\ rep # None
          /\ \E out \in compute_analytics(res[1]) : out.exc = NoExc /\ out.ret = rep
\* a run that stopped at the config or at the validation left both entries
StoppedRunKeepsEntries ==
    page_out' \in {"config_error", "validation_errors"} =>
        /\ Entry(session_state, "sim_result")' = Entry(session_state, "sim_result")
        /\ Entry(session_state, "analytics_report")' = Entry(session_state, "analytics_report")
\* C29: after any sequence of page runs and Run clicks, sim_result and
\* analytics_report are both None or both set by the same run, the report
\* computed from exactly that result; a Run click whose config construction
\* raises ValueError or whose validate_config returns errors stops before
\* running and leaves both entries unchanged.
RunStoresPair == []ResultAndReportPaired /\ [][StoppedRunKeepsEntries]_vars
\* a stored pair survived a Run click that stopped at a ValueError
RunStoresPairWitness ==
    /\ page_out = "config_error"
    /\ Entry(session_state, "sim_result") # None
    /\ Entry(session_state, "analytics_report") # None

====
